---------------------------- MODULE Spec2Model ----------------------------
(***************************************************************************)
(* The layout model (office_layout/models/layout_model.py) and the         *)
(* placement engine (office_layout/algorithms/placement.py) of the office  *)
(* layout planner, as a state machine.                                     *)
(*                                                                         *)
(* Lengths are integers.  Every width and height the specifications draw   *)
(* is even, so that the half thickness of a wall (thickness / 2.0 in       *)
(* validation._obj_rect) is the exact integer thickness \div 2.            *)
(*                                                                         *)
(* An Optional value of the source is a sequence of length at most one:    *)
(* None is << >> and a present value v is <<v>>.                           *)
(*                                                                         *)
(* A Python dict keeps insertion order, and placement iterates             *)
(* _objects.values() in that order: the dict _objects is the sequence      *)
(* objects of its values, each value carrying its key in the field id.     *)
(***************************************************************************)
EXTENDS Integers, Sequences, FiniteSets, TLC

VARIABLES
    room_width,     \* LayoutModel.room_width
    room_height,    \* LayoutModel.room_height
    grid_size,      \* LayoutModel.grid_size
    min_clearance,  \* the attribute placement._get_min_clearance reads
    objects,        \* LayoutModel._objects, in insertion order
    next_id,        \* LayoutModel._next_id
    exit_points,    \* LayoutModel.exit_points
    files,          \* the files of the directory layouts are saved in
    search,         \* the run of _astar_path under way: its locals
    items,          \* OfficeScene.items(): the graphics items, oldest first
    _undo_stack,    \* OfficeScene._undo_stack
    _redo_stack,    \* OfficeScene._redo_stack
    is_drawing_wall,    \* OfficeScene.is_drawing_wall
    wall_start_pos,     \* OfficeScene.wall_start_pos
    current_wall_item,  \* OfficeScene.current_wall_item: its place in items
    window_model,   \* MainWindow.layout_model: the scene's model or another
    icons,          \* whether resources/icons is under the working directory
    edits,          \* the layouts before the edits made, and after those undone
    last,           \* the last call: its name, arguments and outcome
    before          \* the layout's fields when the last call began

vars == <<room_width, room_height, grid_size, min_clearance,
          objects, next_id, exit_points, files, search, items, _undo_stack,
          _redo_stack, is_drawing_wall, wall_start_pos, current_wall_item,
          window_model, icons, edits, last, before>>

\* the editor: the scene, the main window, and the record of its edits
editor == <<items, _undo_stack, _redo_stack, is_drawing_wall, wall_start_pos,
            current_wall_item, window_model, icons, edits>>

\* what the calls on a layout and on the files leave alone
others == <<search, editor>>

\* no run of _astar_path is under way
NoSearch == [phase |-> "idle"]

\* no editor is open
NoEditor ==
    /\ items = << >>
    /\ _undo_stack = << >>
    /\ _redo_stack = << >>
    /\ is_drawing_wall = FALSE
    /\ wall_start_pos = << >>
    /\ current_wall_item = << >>
    /\ window_model = [shared |-> TRUE]
    /\ icons = TRUE
    /\ edits = [past |-> << >>, future |-> << >>, made |-> 0]

Idle == search = NoSearch /\ NoEditor

---------------------------------------------------------------------------
(* Bounds of the model *)

\* No add_object is taken once the layout holds this many objects.
MaxObjects == 2

\* No id is generated, and none is forced, above this value.
MaxId == 2

---------------------------------------------------------------------------
(* Optional values *)

None == << >>

Some(v) == <<v>>

---------------------------------------------------------------------------
(* The file system, as office_layout/storage/json_io.py sees it *)

\* A path is the sequence of the name's stem and suffixes:
\* <<"layout", ".json">> is layout.json, in the one directory of the model.
\* Path.suffix
suffix(path) == path[Len(path)]

\* target.with_suffix(target.suffix + ".tmp")
with_tmp_suffix(target) == Append(target, ".tmp")

\* the paths save_layout is called with
SavePaths == {<<"layout", ".json">>, <<"layout", ".txt">>}

FileNames == SavePaths \cup {with_tmp_suffix(target) : target \in SavePaths}

\* a directory without files: the content of a file is Optional
NoFiles == [name \in FileNames |-> None]

---------------------------------------------------------------------------
(* office_layout/models/object_types.py *)

DESK == "desk"

PLANT == "plant"

WALL == "wall"

\* OBJECT_TYPES, by the fields validation reads
OBJECT_TYPES ==
    [t \in {DESK, PLANT, WALL} |->
        CASE t = DESK -> [min_distance_to_same_type |-> 50,
                          min_distance_to_other |-> 30, walkable |-> FALSE]
          [] t = PLANT -> [min_distance_to_same_type |-> 10,
                           min_distance_to_other |-> 10, walkable |-> FALSE]
          [] t = WALL -> [min_distance_to_same_type |-> 0,
                          min_distance_to_other |-> 0, walkable |-> FALSE]]

get_type_info(object_type) == OBJECT_TYPES[object_type]

is_walkable(object_type) == OBJECT_TYPES[object_type].walkable

\* ObjectType.name.title()
name_title(t) ==
    CASE t = DESK -> "Desk"
      [] t = PLANT -> "Plant"
      [] t = WALL -> "Wall"

---------------------------------------------------------------------------
(* office_layout/algorithms/placement.py: rectangles *)

Rect(x, y, w, h) == [x |-> x, y |-> y, width |-> w, height |-> h]

left(r) == r.x

top(r) == r.y

right(r) == r.x + r.width

bottom(r) == r.y + r.height

\* _to_rect on a LayoutObject or a Rect: the raw x, y, width, height
_to_rect(obj) == Rect(obj.x, obj.y, obj.width, obj.height)

collides_touching(a, b) ==
    ~ (right(a) < left(b) \/ right(b) < left(a)
       \/ bottom(a) < top(b) \/ bottom(b) < top(a))

collides(a, b) ==
    IF right(a) <= left(b) \/ right(b) <= left(a) THEN FALSE
    ELSE IF bottom(a) <= top(b) \/ bottom(b) <= top(a) THEN FALSE
    ELSE TRUE

fits_in_room(o, r) ==
    /\ left(o) >= left(r)
    /\ top(o) >= top(r)
    /\ right(o) <= right(r)
    /\ bottom(o) <= bottom(r)

\* distance_between returns sqrt(dx*dx + dy*dy); the square root is
\* monotone, so the model keeps the square and compares it with the
\* square of the clearance.
distance_between_sq(a, b) ==
    LET dx == IF right(a) < left(b) THEN left(b) - right(a)
              ELSE IF right(b) < left(a) THEN left(a) - right(b)
              ELSE 0
        dy == IF bottom(a) < top(b) THEN top(b) - bottom(a)
              ELSE IF bottom(b) < top(a) THEN top(a) - bottom(b)
              ELSE 0
    IN  dx * dx + dy * dy

---------------------------------------------------------------------------
(* office_layout/algorithms/validation.py: the occupied rectangle *)

Min(a, b) == IF a <= b THEN a ELSE b

normalized(r) ==
    LET x1 == IF r.width < 0 THEN r.x + r.width ELSE r.x
        w1 == IF r.width < 0 THEN 0 - r.width ELSE r.width
        y1 == IF r.height < 0 THEN r.y + r.height ELSE r.y
        h1 == IF r.height < 0 THEN 0 - r.height ELSE r.height
    IN  Rect(x1, y1, w1, h1)

\* metadata.get("ui_type") when it is a non-empty string, else the title
\* of the type's name
_ui_type(obj) ==
    IF \E kv \in obj.metadata : kv[1] = "ui_type" /\ kv[2] # ""
    THEN (CHOOSE kv \in obj.metadata : kv[1] = "ui_type" /\ kv[2] # "")[2]
    ELSE name_title(obj.type)

_is_wall(obj) == IF obj.type = WALL THEN TRUE ELSE _ui_type(obj) = "Wall"

_obj_rect(obj) ==
    LET thickness == Min(obj.width, obj.height)
    IN  IF _is_wall(obj)
        THEN IF obj.width >= obj.height
             THEN normalized(Rect(obj.x, obj.y - (thickness \div 2),
                                  obj.width, thickness))
             ELSE normalized(Rect(obj.x - (thickness \div 2), obj.y,
                                  thickness, obj.height))
        ELSE normalized(Rect(obj.x, obj.y, obj.width, obj.height))

---------------------------------------------------------------------------
(* office_layout/models/layout_model.py *)

LayoutObject(id, type, x, y, w, h, rotation, metadata) ==
    [id |-> id, type |-> type, x |-> x, y |-> y, width |-> w, height |-> h,
     rotation |-> rotation, metadata |-> metadata]

\* the keys of the dict _objects
Ids(objs) == {objs[i].id : i \in DOMAIN objs}

\* _objects[obj.id] = obj: a present key keeps its place in the order
dict_set(objs, obj) ==
    IF obj.id \in Ids(objs)
    THEN [i \in DOMAIN objs |-> IF objs[i].id = obj.id THEN obj ELSE objs[i]]
    ELSE Append(objs, obj)

dict_pop_first(objs, obj_id) ==
    IF objs = << >> THEN objs ELSE Tail(objs)

\* _objects.pop(obj_id, None)
dict_pop(objs, obj_id) ==
    LET keep(o) == o.id # obj_id
    IN  SelectSeq(objs, keep)

\* LayoutModel.get_object: _objects.get(obj_id)
get_object(objs, obj_id) ==
    IF obj_id \in Ids(objs)
    THEN Some(objs[CHOOSE i \in DOMAIN objs : objs[i].id = obj_id])
    ELSE None

get_room_rect == Rect(0, 0, room_width, room_height)

Snapshot == [objects |-> objects, next_id |-> next_id,
             exit_points |-> exit_points, files |-> files,
             room_width |-> room_width, room_height |-> room_height]

\* LayoutModel.__init__.  A LayoutModel has no attribute min_clearance, and
\* _get_min_clearance then reads 0.0; a caller that wants a clearance sets
\* the attribute on the layout it passes (as tests/test_placement.py does).
InitLayout(clearance) ==
    /\ room_width \in {6}
    /\ room_height \in {6}
    /\ grid_size \in {50}
    /\ min_clearance = clearance
    /\ objects = << >>
    /\ next_id = 1
    /\ exit_points = << >>
    /\ files = NoFiles
    /\ Idle
    /\ last = [op |-> "init"]
    /\ before = [objects |-> << >>, next_id |-> 1, exit_points |-> << >>,
                 files |-> NoFiles,
                 room_width |-> room_width, room_height |-> room_height]

Init == InitLayout(0)

\* the id add_object gives the new object
add_object_id(forced_id, nid) ==
    IF forced_id # None THEN forced_id[1] ELSE nid

add_object_next_id_nomax(forced_id, nid) ==
    IF forced_id # None THEN forced_id[1] + 1 ELSE nid + 1

\* _next_id after add_object: max(_next_id, forced_id + 1), or _generate_id
add_object_next_id(forced_id, nid) ==
    IF forced_id # None
    THEN (IF nid >= forced_id[1] + 1 THEN nid ELSE forced_id[1] + 1)
    ELSE nid + 1

\* LayoutModel.add_object
AddObject(type, x, y, w, h, rotation, metadata, forced_id) ==
    LET obj_id == add_object_id(forced_id, next_id)
        obj == LayoutObject(obj_id, type, x, y, w, h, rotation, metadata)
    IN  /\ before' = Snapshot
        /\ next_id' = add_object_next_id(forced_id, next_id)
        /\ objects' = dict_set(objects, obj)
        /\ last' = [op |-> "add_object",
                    args |-> [type |-> type, x |-> x, y |-> y, width |-> w,
                              height |-> h, rotation |-> rotation,
                              metadata |-> metadata, forced_id |-> forced_id],
                    ret |-> [outcome |-> "return", obj |-> obj]]
        /\ UNCHANGED <<others, files, room_width, room_height, grid_size, min_clearance,
                       exit_points>>

\* LayoutModel.remove_object
RemoveObject(obj_id) ==
    /\ before' = Snapshot
    /\ objects' = dict_pop(objects, obj_id)
    /\ last' = [op |-> "remove_object", args |-> [obj_id |-> obj_id],
                ret |-> [outcome |-> "return"]]
    /\ UNCHANGED <<others, files, room_width, room_height, grid_size, min_clearance,
                   next_id, exit_points>>

---------------------------------------------------------------------------
(* office_layout/graphics/scene.py: the editor rewrites the exit points *)

\* GraphicsScene._sync_exit_points_from_markers
SyncExitPoints(pts) ==
    /\ before' = Snapshot
    /\ exit_points' = pts
    /\ last' = [op |-> "sync_exit_points", args |-> [pts |-> pts],
                ret |-> [outcome |-> "return"]]
    /\ UNCHANGED <<others, files, room_width, room_height, grid_size, min_clearance,
                   objects, next_id>>

---------------------------------------------------------------------------
(* office_layout/algorithms/placement.py: can_place and move_object *)

MSG_OUTSIDE == "Object is outside room bounds."

MSG_COLLIDES == "Object collides with another object."

MSG_TOO_CLOSE == "Object is too close to another object."

MSG_VALID == "Placement is valid."

MSG_MOVED == "Object moved successfully."

Result(ok, message) == [ok |-> ok, message |-> message]

\* the loop of _can_place_internal over _iter_objects, from the i-th object
\* on.  ignore is the Optional id of the object to skip: in a LayoutModel
\* the object that `is ignore_obj` is the one whose id is ignore_id.
RECURSIVE can_place_loop(_, _, _, _, _)
can_place_loop(objs, i, candidate_rect, ignore, clearance) ==
    IF i > Len(objs) THEN Result(TRUE, MSG_VALID)
    ELSE LET other == objs[i]
         IN  IF ignore # None /\ other.id = ignore[1]
             THEN can_place_loop(objs, i + 1, candidate_rect, ignore, clearance)
             ELSE IF collides(candidate_rect, _to_rect(other))
             THEN Result(FALSE, MSG_COLLIDES)
             ELSE IF clearance > 0
                     /\ distance_between_sq(candidate_rect, _to_rect(other))
                            < clearance * clearance
             THEN Result(FALSE, MSG_TOO_CLOSE)
             ELSE can_place_loop(objs, i + 1, candidate_rect, ignore, clearance)

_can_place_internal(objs, room_rect, clearance, candidate_rect, ignore) ==
    IF ~ fits_in_room(candidate_rect, room_rect)
    THEN Result(FALSE, MSG_OUTSIDE)
    ELSE can_place_loop(objs, 1, candidate_rect, ignore, clearance)

\* can_place_object: a query, the layout is only read
CanPlaceObject(candidate_rect) ==
    /\ before' = Snapshot
    /\ last' = [op |-> "can_place_object",
                args |-> [candidate |-> candidate_rect],
                ret |-> [outcome |-> "return",
                         result |-> _can_place_internal(objects, get_room_rect,
                                        min_clearance, candidate_rect, None)]]
    /\ UNCHANGED <<others, files, room_width, room_height, grid_size, min_clearance,
                   objects, next_id, exit_points>>

\* the rectangle move_object hands to _can_place_internal
move_candidate_rect(obj, new_x, new_y) ==
    LET current_rect == _to_rect(obj)
    IN  Rect(new_x, new_y, current_rect.width, current_rect.height)

set_xy_swapped(obj, new_x, new_y) == [obj EXCEPT !.x = new_y, !.y = new_x]

\* setattr(obj, "x", new_x); setattr(obj, "y", new_y)
set_xy(obj, new_x, new_y) == [obj EXCEPT !.x = new_x, !.y = new_y]

move_write_unchecked(objs, obj, new_x, new_y, ok) ==
    dict_set(objs, set_xy(obj, new_x, new_y))

\* the layout's objects when move_object returns: written only when ok
move_write(objs, obj, new_x, new_y, ok) ==
    IF ok THEN dict_set(objs, set_xy(obj, new_x, new_y)) ELSE objs

\* move_object on a LayoutModel.  _find_object_by_id returns get_object's
\* value, which is None on a miss; _to_rect(None) then raises
\* AttributeError, which move_object does not catch.
MoveObject(obj_id, new_x, new_y) ==
    LET found == get_object(objects, obj_id)
        args == [obj_id |-> obj_id, new_x |-> new_x, new_y |-> new_y]
    IN  /\ before' = Snapshot
        /\ IF found = None
           THEN /\ last' = [op |-> "move_object", args |-> args,
                            ret |-> [outcome |-> "raise",
                                     exc |-> "AttributeError"]]
                /\ UNCHANGED objects
           ELSE LET obj == found[1]
                    res == _can_place_internal(objects, get_room_rect,
                               min_clearance,
                               move_candidate_rect(obj, new_x, new_y),
                               Some(obj.id))
                IN  /\ objects' = move_write(objects, obj, new_x, new_y, res.ok)
                    /\ last' = [op |-> "move_object", args |-> args,
                                ret |-> [outcome |-> "return",
                                         result |-> IF res.ok
                                                    THEN Result(TRUE, MSG_MOVED)
                                                    ELSE res]]
        /\ UNCHANGED <<others, files, room_width, room_height, grid_size, min_clearance,
                       next_id, exit_points>>

---------------------------------------------------------------------------
(* Specifications *)

EmptyMeta == {}

ExitPointLists == {<< >>, <<[x |-> 5, y |-> 3]>>}

\* ids move_object and remove_object are called with: the ids the layout
\* can hold and one it never holds
CallIds == 0 .. (MaxId + 1)

\* The placement engine at work: objects of valid sizes are added with
\* generated ids, moved, and candidate rectangles are tested.  The room is
\* 6 x 6 and every object 2 x 2 (a WALL of that size is a horizontal wall of
\* thickness 2, its y the centerline).
InitPlace == \E clearance \in {0, 2} : InitLayout(clearance)

MoveTargets == {<<0, 0>>, <<0, 1>>, <<2, 0>>, <<5, 0>>}

Candidates == {Rect(3, 0, 2, 2), Rect(0, 1, 2, 2), Rect(3, 3, 2, 2),
               Rect(4, 3, 2, 4)}

PlaceAdd ==
    \E type \in {DESK, WALL}, x \in {0, 4}, y \in {0, 2} :
        /\ Len(objects) < MaxObjects
        /\ next_id <= MaxId
        /\ AddObject(type, x, y, 2, 2, 0, EmptyMeta, None)

PlaceMove ==
    \E obj_id \in 1 .. (MaxId + 1), xy \in MoveTargets :
        MoveObject(obj_id, xy[1], xy[2])

PlaceCanPlace == \E candidate_rect \in Candidates : CanPlaceObject(candidate_rect)

PlaceExit == \E pts \in ExitPointLists : SyncExitPoints(pts)

NextPlace == PlaceAdd \/ PlaceMove \/ PlaceCanPlace \/ PlaceExit

SpecPlace == InitPlace /\ [][NextPlace]_vars

\* The id allocator at work: objects are added with generated and with
\* forced ids, of valid and of invalid sizes, removed and moved.
IdShapes == {<<2, 2>>, <<0, 2>>, <<2, -2>>}

IdAdd ==
    \E wh \in IdShapes, forced_id \in {None} \cup {Some(i) : i \in 0 .. MaxId} :
        /\ Len(objects) < MaxObjects
             \/ (forced_id # None /\ forced_id[1] \in Ids(objects))
        /\ forced_id = None => next_id <= MaxId
        /\ AddObject(DESK, 0, 0, wh[1], wh[2], 0, EmptyMeta, forced_id)

IdRemove == \E obj_id \in CallIds : RemoveObject(obj_id)

IdMove == \E obj_id \in {1, MaxId + 1} : MoveObject(obj_id, 4, 0)

IdExit == \E pts \in ExitPointLists : SyncExitPoints(pts)

Next == IdAdd \/ IdRemove \/ IdMove \/ IdExit

Spec == Init /\ [][Next]_vars

---------------------------------------------------------------------------
(* What the properties read of the last call *)

\* the layout's fields are what they were when the last call began
LayoutUnchanged ==
    /\ objects = before.objects
    /\ next_id = before.next_id
    /\ exit_points = before.exit_points
    /\ room_width = before.room_width
    /\ room_height = before.room_height

MoveReturned == last.op = "move_object" /\ last.ret.outcome = "return"

MoveAccepted == MoveReturned /\ last.ret.result.ok

MoveRejected == MoveReturned /\ ~ last.ret.result.ok

\* the object of the last move_object call, before and after the call
MovedBefore == get_object(before.objects, last.args.obj_id)[1]

MovedAfter == get_object(objects, last.args.obj_id)[1]

\* the positions of seq whose object is not the one with this Optional id
OtherPositions(seq, ignore) ==
    {i \in DOMAIN seq : ignore = None \/ seq[i].id # ignore[1]}

---------------------------------------------------------------------------
(* Geometry as the specification words it, written apart from the code *)

Max(a, b) == IF a >= b THEN a ELSE b

\* the interiors of two rectangles overlap (touching edges do not)
Overlap(a, b) ==
    /\ a.x < b.x + b.width
    /\ b.x < a.x + a.width
    /\ a.y < b.y + b.height
    /\ b.y < a.y + a.height

\* every edge of inner lies within outer
Contained(inner, outer) ==
    /\ outer.x <= inner.x
    /\ outer.y <= inner.y
    /\ inner.x + inner.width <= outer.x + outer.width
    /\ inner.y + inner.height <= outer.y + outer.height

\* the square of the Euclidean distance between the closest points
GapSq(a, b) ==
    LET gx == Max(0, Max(b.x - (a.x + a.width), a.x - (b.x + b.width)))
        gy == Max(0, Max(b.y - (a.y + a.height), a.y - (b.y + b.height)))
    IN  gx * gx + gy * gy

RoomRect == Rect(0, 0, before.room_width, before.room_height)

---------------------------------------------------------------------------
(* C1 .. C4: move_object *)

\* C1: whenever move_object returns (false, reason) for out-of-bounds,
\* collision or too-close, every field of every object (the target's x and
\* y too), the room and the exit points are what they were before the call.
C1_RejectedMoveChangesNothing ==
    (MoveRejected /\ last.ret.result.message
                        \in {MSG_OUTSIDE, MSG_COLLIDES, MSG_TOO_CLOSE})
        => LayoutUnchanged

\* a move to an overlapping position was rejected while the layout holds
\* a second object and an exit point
C1_Witness ==
    /\ MoveRejected
    /\ last.ret.result.message = MSG_COLLIDES
    /\ Len(objects) = 2
    /\ exit_points # << >>
    /\ MovedBefore.x # last.args.new_x

\* C2: whenever move_object returns (true, _), the object with that id has
\* x = new_x and y = new_y, its other fields are unchanged, and no other
\* object, the object set, the room or the exit points changed.
C2_AcceptedMoveWritesOnlyXY ==
    MoveAccepted =>
        /\ MovedAfter.x = last.args.new_x
        /\ MovedAfter.y = last.args.new_y
        /\ MovedAfter.width = MovedBefore.width
        /\ MovedAfter.height = MovedBefore.height
        /\ MovedAfter.rotation = MovedBefore.rotation
        /\ MovedAfter.type = MovedBefore.type
        /\ MovedAfter.metadata = MovedBefore.metadata
        /\ Len(objects) = Len(before.objects)
        /\ \A i \in DOMAIN objects :
              /\ objects[i].id = before.objects[i].id
              /\ objects[i].id # last.args.obj_id
                    => objects[i] = before.objects[i]
        /\ next_id = before.next_id
        /\ exit_points = before.exit_points
        /\ room_width = before.room_width
        /\ room_height = before.room_height

\* an accepted move that changed the position of one of two objects
C2_Witness ==
    /\ MoveAccepted
    /\ Len(objects) = 2
    /\ MovedBefore.x # last.args.new_x
    /\ last.args.new_x # last.args.new_y
    /\ exit_points # << >>

\* C3: after move_object returns (true, _) for any object, a WALL too, the
\* moved object's occupied rectangle under the wall centerline convention
\* is contained in the room and passes can_place with ignore_id = id.
C3_AcceptedMoveOccupiedRectIsPlaceable ==
    MoveAccepted =>
        /\ Contained(_obj_rect(MovedAfter), RoomRect)
        /\ _can_place_internal(objects, get_room_rect, min_clearance,
                               _obj_rect(MovedAfter),
                               Some(last.args.obj_id)).ok

\* C4: move_object with an id that is not in the layout returns a
\* (false, not-found reason) pair, does not raise, and leaves the layout
\* unchanged.
C4_MoveOfUnknownIdReturnsNotFound ==
    (last.op = "move_object" /\ last.args.obj_id \notin Ids(before.objects))
        => /\ last.ret.outcome = "return"
           /\ ~ last.ret.result.ok
           /\ LayoutUnchanged

---------------------------------------------------------------------------
(* C5, C6: can_place *)

\* the last call ran can_place: can_place_object, or a move_object that
\* found its object
PlacementCall ==
    \/ last.op = "can_place_object"
    \/ MoveReturned

\* the candidate rectangle, the ignored id and the verdict of that run
PlacedCandidate ==
    IF last.op = "can_place_object" THEN last.args.candidate
    ELSE Rect(last.args.new_x, last.args.new_y,
              MovedBefore.width, MovedBefore.height)

PlacedIgnore ==
    IF last.op = "can_place_object" THEN None ELSE Some(last.args.obj_id)

PlacedOk == last.ret.result.ok

PlacedMessage == last.ret.result.message

\* the objects the candidate is tested against, by position in the layout
TestedPositions == OtherPositions(before.objects, PlacedIgnore)

StoredRect(i) ==
    Rect(before.objects[i].x, before.objects[i].y,
         before.objects[i].width, before.objects[i].height)

TooNear(a, b) ==
    min_clearance > 0 /\ GapSq(a, b) < min_clearance * min_clearance

\* the candidate fails a test against the i-th object
FailsAgainst(i) ==
    \/ Overlap(PlacedCandidate, StoredRect(i))
    \/ TooNear(PlacedCandidate, StoredRect(i))

FirstFailing ==
    CHOOSE i \in TestedPositions :
        /\ FailsAgainst(i)
        /\ \A j \in TestedPositions : FailsAgainst(j) => i <= j

\* C5: can_place returns ok = true iff the candidate is contained in the
\* room and, for every object other than the ignored one, the candidate
\* does not intersect it and (min_clearance <= 0 or their distance is at
\* least min_clearance); when it returns false the reason is OutOfBounds
\* if the candidate is not contained in the room, otherwise Collision or
\* TooClose according to the first failing test; touching edges are no
\* collision.  Each object is taken as its stored rectangle (x, y, width,
\* height); the rectangle a wall presents is the matter of C6.
C5_CanPlaceVerdict ==
    PlacementCall =>
        /\ PlacedOk <=> /\ Contained(PlacedCandidate, RoomRect)
                        /\ \A i \in TestedPositions : ~ FailsAgainst(i)
        /\ ~ PlacedOk =>
              PlacedMessage =
                 IF ~ Contained(PlacedCandidate, RoomRect) THEN MSG_OUTSIDE
                 ELSE IF Overlap(PlacedCandidate, StoredRect(FirstFailing))
                      THEN MSG_COLLIDES
                      ELSE MSG_TOO_CLOSE

\* a candidate that is too close to the first object and overlaps the
\* second is refused as too close
C5_Witness ==
    /\ last.op = "can_place_object"
    /\ ~ PlacedOk
    /\ PlacedMessage = MSG_TOO_CLOSE
    /\ Len(before.objects) = 2
    /\ Overlap(PlacedCandidate, StoredRect(2))

\* C6: when the layout contains a WALL, can_place tests the candidate
\* against the wall's occupied rectangle under the centerline convention:
\* it reports Collision iff the candidate intersects occupied_rect(wall).
\* Stated where nothing but a collision can refuse a candidate that is in
\* the room (min_clearance = 0).
C6_CanPlaceUsesOccupiedRectOfWalls ==
    (/\ PlacementCall
     /\ min_clearance = 0
     /\ Contained(PlacedCandidate, RoomRect)
     /\ \E i \in TestedPositions : before.objects[i].type = WALL)
        => ((~ PlacedOk /\ PlacedMessage = MSG_COLLIDES)
               <=> \E i \in TestedPositions :
                      Overlap(PlacedCandidate, _obj_rect(before.objects[i])))

---------------------------------------------------------------------------
(* C7 .. C10: the object mapping and the id allocator *)

AddCall == last.op = "add_object"

\* the objects of a layout, as a set
Stored(seq) == {seq[i] : i \in DOMAIN seq}

\* C7: after any sequence of add_object, remove_object and move_object
\* calls every stored object has a strictly positive id and no two objects
\* share an id; no add_object call makes a previously added, not removed
\* object disappear or be replaced.
C7_IdsPositiveUniqueAndAddKeepsObjects ==
    /\ \A i \in DOMAIN objects : objects[i].id > 0
    /\ \A i, j \in DOMAIN objects : objects[i].id = objects[j].id => i = j
    /\ AddCall => Stored(before.objects) \subseteq Stored(objects)

\* C8: add_object with a non-positive width or height, or with a forced_id
\* equal to the id of an object already in the layout, fails with an
\* InvalidInput error and leaves the object mapping and the allocator
\* unchanged.
C8_InvalidAddIsRefused ==
    (/\ AddCall
     /\ \/ last.args.width <= 0
        \/ last.args.height <= 0
        \/ /\ last.args.forced_id # None
           /\ last.args.forced_id[1] \in Ids(before.objects))
        => /\ last.ret.outcome = "raise"
           /\ objects = before.objects
           /\ next_id = before.next_id

\* C9: after any sequence of add_object and remove_object calls, some with
\* a forced_id, the id the next add_object without forced_id assigns is
\* strictly greater than the id of every object in the layout, and the
\* allocator value never decreases.
C9_AllocatorAboveEveryId ==
    /\ \A i \in DOMAIN objects : add_object_id(None, next_id) > objects[i].id
    /\ next_id >= before.next_id
    /\ (AddCall /\ last.args.forced_id = None)
          => \A i \in DOMAIN before.objects :
                last.ret.obj.id > before.objects[i].id

\* an id was generated while the one object of the layout, a forced one
\* with id 0, had left the allocator above the number of objects
C9_Witness ==
    /\ AddCall
    /\ last.args.forced_id = None
    /\ Ids(before.objects) = {0}
    /\ last.ret.obj.id > 1

RemoveCall == last.op = "remove_object"

\* C10: remove_object(id) of an id that is not in the layout is a silent
\* no-op (no error; objects, allocator and exit points unchanged); of an
\* existing id it removes exactly that object, after which get_object(id)
\* is none and all other objects are unchanged.
C10_RemoveTakesExactlyThatObject ==
    RemoveCall =>
        /\ last.ret.outcome = "return"
        /\ next_id = before.next_id
        /\ exit_points = before.exit_points
        /\ IF last.args.obj_id \in Ids(before.objects)
           THEN /\ get_object(objects, last.args.obj_id) = None
                /\ Len(objects) = Len(before.objects) - 1
                /\ Stored(objects) =
                      {o \in Stored(before.objects) : o.id # last.args.obj_id}
           ELSE objects = before.objects

\* the second of two objects was removed from a layout with an exit point
C10_Witness ==
    /\ RemoveCall
    /\ Len(before.objects) = 2
    /\ before.objects[2].id = last.args.obj_id
    /\ Len(objects) = 1
    /\ exit_points # << >>

---------------------------------------------------------------------------
(* office_layout/models/layout_model.py: serialization *)

\* the fields of a LayoutModel
Layout == [room_width |-> room_width, room_height |-> room_height,
           grid_size |-> grid_size, objects |-> objects,
           next_id |-> next_id, exit_points |-> exit_points]

\* LayoutObject.to_dict: the dict of one object, its type saved as the
\* enum's value (the string the model names the type by)
object_to_dict(obj) ==
    [id |-> obj.id, type |-> obj.type, x |-> obj.x, y |-> obj.y,
     width |-> obj.width, height |-> obj.height, rotation |-> obj.rotation,
     metadata |-> obj.metadata]

\* LayoutObject.from_dict
object_from_dict(data) ==
    LayoutObject(data.id, data.type, data.x, data.y, data.width, data.height,
                 data.rotation, data.metadata)

\* LayoutModel.to_dict: the room, the objects in the order of the dict, and
\* a copy of the exit points.  _next_id is not among the keys.
to_dict(model) ==
    [room |-> [width |-> model.room_width, height |-> model.room_height,
               grid_size |-> model.grid_size],
     objects |-> [i \in DOMAIN model.objects |->
                     object_to_dict(model.objects[i])],
     exit_points |-> model.exit_points]

\* the loop of LayoutModel.from_dict: add_object with forced_id = obj.id on
\* the model under construction, from the i-th saved object on
RECURSIVE from_dict_loop(_, _, _)
from_dict_loop(model, object_dicts, i) ==
    IF i > Len(object_dicts) THEN model
    ELSE LET obj == object_from_dict(object_dicts[i])
             forced_id == Some(obj.id)
         IN  from_dict_loop(
                 [model EXCEPT
                     !.objects = dict_set(model.objects, obj),
                     !.next_id = add_object_next_id(forced_id, model.next_id)],
                 object_dicts, i + 1)

\* LayoutModel.from_dict: a new model (no objects, _next_id = 1), the saved
\* objects re-added, then the exit points
from_dict(data) ==
    LET model == [room_width |-> data.room.width,
                  room_height |-> data.room.height,
                  grid_size |-> data.room.grid_size,
                  objects |-> << >>, next_id |-> 1, exit_points |-> << >>]
        loaded == from_dict_loop(model, data.objects, 1)
    IN  [loaded EXCEPT !.exit_points = data.exit_points]

---------------------------------------------------------------------------
(* C11: the round trip *)

\* C11: for every layout L reachable by add_object, remove_object,
\* move_object and exit-point edits, from_dict(to_dict(L)) equals L in all
\* layout fields: the room, grid_size, the objects with every field, the
\* ordered exit points and the id allocator, so that the next generated id
\* after reload is strictly greater than every loaded id.
C11_RoundTripEqualsLayout ==
    LET reloaded == from_dict(to_dict(Layout))
    IN  /\ reloaded = Layout
        /\ \A i \in DOMAIN reloaded.objects :
              add_object_id(None, reloaded.next_id) > reloaded.objects[i].id

---------------------------------------------------------------------------
(* office_layout/utils/geometry.py *)

rects_intersect(a, b) ==
    LET ra == normalized(a)
        rb == normalized(b)
    IN  ~ (right(ra) <= left(rb) \/ left(ra) >= right(rb)
           \/ bottom(ra) <= top(rb) \/ top(ra) >= bottom(rb))

\* distance_rect_to_rect returns hypot(dx, dy), and 0.0 for intersecting
\* rectangles; the model keeps the square
distance_rect_to_rect_sq(a, b) ==
    LET ra == normalized(a)
        rb == normalized(b)
        dx == IF right(ra) < left(rb) THEN left(rb) - right(ra)
              ELSE IF right(rb) < left(ra) THEN left(ra) - right(rb)
              ELSE 0
        dy == IF bottom(ra) < top(rb) THEN top(rb) - bottom(ra)
              ELSE IF bottom(rb) < top(ra) THEN top(ra) - bottom(rb)
              ELSE 0
    IN  IF rects_intersect(ra, rb) THEN 0 ELSE dx * dx + dy * dy

\* world_to_cell: (row, col) = (int(y // grid), int(x // grid))
world_to_cell(x, y, grid) == <<y \div grid, x \div grid>>

\* world_to_cell of a point given by its doubled coordinates (the centre of
\* a rectangle with integer edges has half-integer coordinates)
world_to_cell_doubled(x2, y2, grid) ==
    <<y2 \div (2 * grid), x2 \div (2 * grid)>>

\* rect_to_covered_cells: the list of the cells, row by row.  The edges are
\* integers, so int((x2 - 1e-9) // grid) is (x2 - 1) \div grid.
rect_to_covered_cells(r, grid, max_rows, max_cols) ==
    LET rr == normalized(r)
        start_row == Max(0, Min(max_rows - 1, top(rr) \div grid))
        end_row == Max(0, Min(max_rows - 1, (bottom(rr) - 1) \div grid))
        start_col == Max(0, Min(max_cols - 1, left(rr) \div grid))
        end_col == Max(0, Min(max_cols - 1, (right(rr) - 1) \div grid))
        n_rows == Max(0, end_row + 1 - start_row)
        n_cols == Max(0, end_col + 1 - start_col)
    IN  [k \in 1 .. n_rows * n_cols |->
            <<start_row + ((k - 1) \div n_cols),
              start_col + ((k - 1) % n_cols)>>]

\* the elements of a list
elements(list) == {list[k] : k \in DOMAIN list}

---------------------------------------------------------------------------
(* office_layout/algorithms/validation.py: the grid and A* *)

_rect_inside_room_top_left(r, room) ==
    LET rr == normalized(r)
        rm == normalized(room)
    IN  left(rr) >= left(rm) /\ top(rr) >= top(rm)

_rect_inside_room(r, room) ==
    LET rr == normalized(r)
        rm == normalized(room)
    IN  /\ left(rr) >= left(rm)
        /\ top(rr) >= top(rm)
        /\ right(rr) <= right(rm)
        /\ bottom(rr) <= bottom(rm)

\* _rect_center, both coordinates doubled
_rect_center_doubled(r) ==
    LET rr == normalized(r)
    IN  <<left(rr) + right(rr), top(rr) + bottom(rr)>>

_clamp_cell(cell, w, h) ==
    <<IF cell[1] < 0 THEN 0 ELSE IF cell[1] >= h THEN h - 1 ELSE cell[1],
      IF cell[2] < 0 THEN 0 ELSE IF cell[2] >= w THEN w - 1 ELSE cell[2]>>

_neighbors_4(cell, w, h) ==
    LET r == cell[1]
        c == cell[2]
    IN  (IF r > 0 THEN {<<r - 1, c>>} ELSE {})
        \cup (IF r < h - 1 THEN {<<r + 1, c>>} ELSE {})
        \cup (IF c > 0 THEN {<<r, c - 1>>} ELSE {})
        \cup (IF c < w - 1 THEN {<<r, c + 1>>} ELSE {})

Abs(n) == IF n < 0 THEN 0 - n ELSE n

\* abs(goal[0] - r) + abs(goal[1] - c), the heuristic of _astar_exists and of
\* _astar_path
manhattan(goal, cell) == Abs(goal[1] - cell[1]) + Abs(goal[2] - cell[2])

\* the order of the heap's entries (f, (row, col)): Python compares the
\* tuples lexicographically
heap_le(e, o) ==
    \/ e[1] < o[1]
    \/ /\ e[1] = o[1]
       /\ \/ e[2][1] < o[2][1]
          \/ e[2][1] = o[2][1] /\ e[2][2] <= o[2][2]

\* mutant of heap_min: the largest entry
heap_max(open_heap) == CHOOSE e \in open_heap : \A o \in open_heap : heap_le(o, e)

\* heappop: the least entry of the heap
heap_min(open_heap) == CHOOSE e \in open_heap : \A o \in open_heap : heap_le(e, o)

\* the while loop of _astar_exists.  A grid is its width w, its height h
\* and the set blocked of the cells whose value is 1.  A cell is pushed
\* again only with a smaller g, so no entry is in the heap twice and the
\* heap is a set.
RECURSIVE astar_exists_loop(_, _, _, _, _)
astar_exists_loop(grid, goal, open_heap, gscore, visited) ==
    IF open_heap = {} THEN FALSE
    ELSE LET entry == heap_min(open_heap)
             cur == entry[2]
             rest == open_heap \ {entry}
         IN  IF cur \in visited
             THEN astar_exists_loop(grid, goal, rest, gscore, visited)
             ELSE IF cur = goal THEN TRUE
             ELSE LET tentative == gscore[cur] + 1
                      better == {nb \in _neighbors_4(cur, grid.w, grid.h) :
                                    /\ nb \notin grid.blocked
                                    /\ \/ nb \notin DOMAIN gscore
                                       \/ tentative < gscore[nb]}
                      pushed == {<<tentative + manhattan(goal, nb), nb>> :
                                    nb \in better}
                      gscore2 == [c \in DOMAIN gscore \cup better |->
                                     IF c \in better THEN tentative
                                     ELSE gscore[c]]
                  IN  astar_exists_loop(grid, goal, rest \cup pushed, gscore2,
                                        visited \cup {cur})

_astar_exists(grid, start, goal) ==
    IF grid.w = 0 THEN FALSE
    ELSE IF ~ (/\ 0 <= start[1] /\ start[1] < grid.h
               /\ 0 <= start[2] /\ start[2] < grid.w
               /\ 0 <= goal[1] /\ goal[1] < grid.h
               /\ 0 <= goal[2] /\ goal[2] < grid.w)
    THEN FALSE
    ELSE IF start \in grid.blocked \/ goal \in grid.blocked THEN FALSE
    ELSE astar_exists_loop(grid, goal, {<<0, start>>},
                           [c \in {start} |-> 0], {})

\* _get_grid_size: 20.0 for a grid_size that is not positive
_get_grid_size(model) == IF model.grid_size > 0 THEN model.grid_size ELSE 20

\* _room_rect of a LayoutModel: get_room_rect(), normalized
_room_rect(model) == normalized(Rect(0, 0, model.room_width, model.room_height))

\* _get_exit_points: the (x, y) pairs of the exit-point dicts
_get_exit_points(model) ==
    [i \in DOMAIN model.exit_points |->
        <<model.exit_points[i].x, model.exit_points[i].y>>]

\* the cells _mark_rect_as writes for a rectangle
validation_mark_cells(r, room, cell_size, w, h) ==
    LET rr == normalized(r)
        local == normalized(Rect(left(rr) - left(room), top(rr) - top(room),
                                 rr.width, rr.height))
    IN  {cell \in elements(rect_to_covered_cells(local, cell_size, h, w)) :
            /\ 0 <= cell[1] /\ cell[1] < h
            /\ 0 <= cell[2] /\ cell[2] < w}

\* door_pad = max(cell_size * 0.6, 6.0); the cell sizes of the model are
\* multiples of 5, for which cell_size * 0.6 is (cell_size * 6) \div 10
validation_door_pad(cell_size) == Max((cell_size * 6) \div 10, 6)

\* validation._build_occupancy_grid.  The three passes write 1 for every
\* obstacle, then 0 for every opened door, then 0 for the cell of every
\* exit: a cell is 1 at the end iff an obstacle wrote it and no door and no
\* exit did.
validation_build_occupancy_grid(model, cell_size) ==
    LET room == _room_rect(model)
        w == Max(1, room.width \div cell_size)
        h == Max(1, room.height \div cell_size)
        objs == model.objects
        obstacles == {i \in DOMAIN objs :
                         /\ _ui_type(objs[i]) # "Door"
                         /\ ~ is_walkable(objs[i].type)}
        doors == {i \in DOMAIN objs : _ui_type(objs[i]) = "Door"}
        marked == UNION {validation_mark_cells(_obj_rect(objs[i]), room,
                                               cell_size, w, h) :
                            i \in obstacles}
        door_pad == validation_door_pad(cell_size)
        opened(i) == LET r == normalized(_obj_rect(objs[i]))
                     IN  normalized(Rect(left(r) - door_pad, top(r) - door_pad,
                                         r.width + 2 * door_pad,
                                         r.height + 2 * door_pad))
        carved == UNION {validation_mark_cells(opened(i), room, cell_size, w, h) :
                            i \in doors}
        exit_pts == _get_exit_points(model)
        exit_cells == {cell \in {world_to_cell(exit_pts[k][1] - left(room),
                                               exit_pts[k][2] - top(room),
                                               cell_size) :
                                    k \in DOMAIN exit_pts} :
                          /\ 0 <= cell[1] /\ cell[1] < h
                          /\ 0 <= cell[2] /\ cell[2] < w}
    IN  [w |-> w, h |-> h, blocked |-> (marked \ carved) \ exit_cells]

---------------------------------------------------------------------------
(* office_layout/algorithms/validation.py: validate_layout *)

OUT_OF_BOUNDS == "OUT_OF_BOUNDS"

COLLISION == "COLLISION"

DISTANCE_TOO_SMALL == "DISTANCE_TOO_SMALL"

OVER_CROWDING == "OVER_CROWDING"

NO_PATH_TO_EXIT == "NO_PATH_TO_EXIT"

\* a ValidationError, without its message: a text made of the ui types and
\* the distance to one decimal, which nothing reads
ValidationError(code, objects_involved) ==
    [code |-> code, objects_involved |-> objects_involved]

\* the pairs (i, j), i < j, in the order of the nested loops
\* for i in range(n): for j in range(i + 1, n)
RECURSIVE pairs_from(_, _, _)
pairs_from(n, i, j) ==
    IF i > n THEN << >>
    ELSE IF j > n THEN pairs_from(n, i + 1, i + 2)
    ELSE <<<<i, j>>>> \o pairs_from(n, i, j + 1)

index_pairs(n) == pairs_from(n, 1, 2)

\* required of the distance rule: the larger of the two types' minima, to
\* the same type when the types are equal, to other types when not
required_distance(ta, tb) ==
    IF ta = tb
    THEN Max(get_type_info(ta).min_distance_to_same_type,
             get_type_info(tb).min_distance_to_same_type)
    ELSE Max(get_type_info(ta).min_distance_to_other,
             get_type_info(tb).min_distance_to_other)

\* 1) the bounds check
bounds_errors(objs, room) ==
    LET outside(obj) == ~ _rect_inside_room(_obj_rect(obj), room)
        found == SelectSeq(objs, outside)
    IN  [k \in DOMAIN found |-> ValidationError(OUT_OF_BOUNDS, <<found[k]>>)]

\* the errors of a loop over the pairs: one for each pair the test of the
\* loop holds of (hits)
pair_errors(objs, code, hits) ==
    LET hit(p) == p \in hits
        found == SelectSeq(index_pairs(Len(objs)), hit)
    IN  [k \in DOMAIN found |->
            ValidationError(code, <<objs[found[k][1]], objs[found[k][2]]>>)]

collision_test_walls_too(a, b) ==
    rects_intersect(_obj_rect(a), _obj_rect(b))

\* 2) the collision check
collision_test(a, b) ==
    IF _is_wall(a) /\ _is_wall(b) THEN FALSE
    ELSE rects_intersect(_obj_rect(a), _obj_rect(b))

distance_test_inclusive(a, b) ==
    LET d_sq == distance_rect_to_rect_sq(_obj_rect(a), _obj_rect(b))
        required == required_distance(a.type, b.type)
    IN  required > 0 /\ d_sq <= required * required

\* 3) the minimum distance rule; every type of a LayoutModel's objects is
\* an ObjectType.  d < required is compared on the squares.
distance_test(a, b) ==
    LET d_sq == distance_rect_to_rect_sq(_obj_rect(a), _obj_rect(b))
        required == required_distance(a.type, b.type)
    IN  required > 0 /\ d_sq < required * required

\* 4) the clutter heuristic: hypot of the centres' difference < 25.0, on
\* the doubled centres
crowding_test(a, b) ==
    LET ca == _rect_center_doubled(_obj_rect(a))
        cb == _rect_center_doubled(_obj_rect(b))
    IN  (cb[1] - ca[1]) * (cb[1] - ca[1]) + (cb[2] - ca[2]) * (cb[2] - ca[2])
            < 50 * 50

\* 5) the path to an exit, from the centre of the first object that is no
\* wall
path_errors(model) ==
    LET exit_pts == _get_exit_points(model)
        cell_size == _get_grid_size(model)
        grid == validation_build_occupancy_grid(model, cell_size)
        room_r == _room_rect(model)
        not_wall(obj) == ~ _is_wall(obj)
        starts == SelectSeq(model.objects, not_wall)
        start_xy == _rect_center_doubled(_obj_rect(starts[1]))
        start == _clamp_cell(
                     world_to_cell_doubled(start_xy[1] - 2 * left(room_r),
                                           start_xy[2] - 2 * top(room_r),
                                           cell_size),
                     grid.w, grid.h)
        goal(k) == _clamp_cell(world_to_cell(exit_pts[k][1] - left(room_r),
                                             exit_pts[k][2] - top(room_r),
                                             cell_size),
                               grid.w, grid.h)
        reachable == \E k \in DOMAIN exit_pts :
                        _astar_exists(grid, start, goal(k))
    IN  IF exit_pts = << >> THEN << >>
        ELSE IF grid.w <= 0 THEN << >>
        ELSE IF starts = << >> THEN << >>
        ELSE IF reachable THEN << >>
        ELSE <<ValidationError(NO_PATH_TO_EXIT, << >>)>>

\* validate_layout: the errors of the five checks, in that order
validate_layout(model) ==
    LET objs == model.objects
        room == _room_rect(model)
    IN  bounds_errors(objs, room)
        \o pair_errors(objs, COLLISION,
              {p \in (DOMAIN objs) \X (DOMAIN objs) :
                  collision_test(objs[p[1]], objs[p[2]])})
        \o pair_errors(objs, DISTANCE_TOO_SMALL,
              {p \in (DOMAIN objs) \X (DOMAIN objs) :
                  distance_test(objs[p[1]], objs[p[2]])})
        \o pair_errors(objs, OVER_CROWDING,
              {p \in (DOMAIN objs) \X (DOMAIN objs) :
                  crowding_test(objs[p[1]], objs[p[2]])})
        \o path_errors(model)

\* a call of validate_layout on the layout
ValidateLayout ==
    /\ before' = Snapshot
    /\ last' = [op |-> "validate_layout",
                ret |-> [outcome |-> "return",
                         errors |-> validate_layout(Layout)]]
    /\ UNCHANGED <<others, files, room_width, room_height, grid_size, min_clearance,
                   objects, next_id, exit_points>>

---------------------------------------------------------------------------
(* The validator at work *)

\* validate_layout is given layouts of at most this many objects.
MaxValidated == 3

\* The room of tests/test_validation.py: 100 x 40, with cells of 10.
\* the fields of LayoutModel(room_width, room_height, grid_size), and
\* no files
InitLayoutOf(width, height, grid) ==
    /\ room_width = width
    /\ room_height = height
    /\ grid_size = grid
    /\ min_clearance = 0
    /\ objects = << >>
    /\ next_id = 1
    /\ exit_points = << >>
    /\ files = NoFiles
    /\ before = [objects |-> << >>, next_id |-> 1, exit_points |-> << >>,
                 files |-> NoFiles,
                 room_width |-> room_width, room_height |-> room_height]

InitValidate ==
    /\ InitLayoutOf(100, 40, 10)
    /\ last = [op |-> "init"]
    /\ Idle

\* the metadata the scene gives a door item (scene._register_item_in_model)
DoorMeta == {<<"ui_type", "Door">>}

\* What the editor places, as <<type, x, y, width, height, metadata>>:
\* desks 30 from the wall and 50 apart, one overlapping the first and one
\* across the room's right edge; a plant; a full-height vertical wall on
\* the centerline x = 50 and a full-width horizontal one on y = 20; a door
\* across the vertical wall.
Placed ==
    {<<DESK, 5, 10, 10, 10, EmptyMeta>>,
     <<DESK, 65, 10, 10, 10, EmptyMeta>>,
     <<DESK, 10, 15, 10, 10, EmptyMeta>>,
     <<DESK, 95, 10, 10, 10, EmptyMeta>>,
     <<PLANT, 39, 28, 10, 10, EmptyMeta>>,
     <<WALL, 50, 0, 10, 40, EmptyMeta>>,
     <<WALL, 0, 20, 100, 10, EmptyMeta>>,
     <<DESK, 45, 15, 10, 10, DoorMeta>>}

ValidatedExits == {<< >>, <<[x |-> 90, y |-> 20]>>}

ValAdd ==
    \E p \in Placed :
        /\ Len(objects) < MaxValidated
        /\ AddObject(p[1], p[2], p[3], p[4], p[5], 0, p[6], None)

ValExit == \E pts \in ValidatedExits : SyncExitPoints(pts)

NextValidate == ValAdd \/ ValExit \/ ValidateLayout

SpecValidate == InitValidate /\ [][NextValidate]_vars

---------------------------------------------------------------------------
(* C12 .. C14: the errors of validate_layout, pair by pair *)

ValidateCall == last.op = "validate_layout"

Errors == last.ret.errors

\* an object is a wall
IsWall(obj) == obj.type = WALL

\* the occupied rectangle: a wall's y (its x, for a vertical wall) is its
\* centerline, every other object's (x, y) its top-left corner
OccupiedRect(obj) ==
    IF ~ IsWall(obj) THEN Rect(obj.x, obj.y, obj.width, obj.height)
    ELSE IF obj.width >= obj.height
    THEN Rect(obj.x, obj.y - obj.height \div 2, obj.width, obj.height)
    ELSE Rect(obj.x - obj.width \div 2, obj.y, obj.width, obj.height)

\* required(a, b)
Required(a, b) ==
    IF a.type = b.type
    THEN Max(OBJECT_TYPES[a.type].min_distance_to_same_type,
             OBJECT_TYPES[b.type].min_distance_to_same_type)
    ELSE Max(OBJECT_TYPES[a.type].min_distance_to_other,
             OBJECT_TYPES[b.type].min_distance_to_other)

\* the unordered pairs of objects, by position
ObjectPairs ==
    {p \in (DOMAIN objects) \X (DOMAIN objects) : p[1] < p[2]}

\* how many errors with this code are about the pair p
ErrorsAbout(code, p) ==
    Cardinality({k \in DOMAIN Errors :
                    /\ Errors[k].code = code
                    /\ Errors[k].objects_involved
                          \in {<<objects[p[1]], objects[p[2]]>>,
                               <<objects[p[2]], objects[p[1]]>>}})

\* how many errors have this code
ErrorsOf(code) == Cardinality({k \in DOMAIN Errors : Errors[k].code = code})

Intersecting(p) ==
    Overlap(OccupiedRect(objects[p[1]]), OccupiedRect(objects[p[2]]))

BothWalls(p) == IsWall(objects[p[1]]) /\ IsWall(objects[p[2]])

TooSmall(p) ==
    LET req == Required(objects[p[1]], objects[p[2]])
    IN  /\ req > 0
        /\ GapSq(OccupiedRect(objects[p[1]]), OccupiedRect(objects[p[2]]))
              < req * req

\* C12: if validate_layout(L) returns an empty list, every object's
\* occupied rectangle (wall centerline convention applied) is contained in
\* the room, no two objects that are not both walls have intersecting
\* occupied rectangles, and every pair is at rect-to-rect distance
\* >= required(a, b).
C12_EmptyResultMeansPlacedWell ==
    (ValidateCall /\ Errors = << >>) =>
        /\ \A i \in DOMAIN objects :
              Contained(OccupiedRect(objects[i]),
                        Rect(0, 0, room_width, room_height))
        /\ \A p \in ObjectPairs :
              /\ ~ BothWalls(p) => ~ Intersecting(p)
              /\ ~ TooSmall(p)

\* validate_layout found nothing wrong with a wall and a desk 30 from it
C12_Witness ==
    /\ ValidateCall
    /\ Errors = << >>
    /\ \E p \in ObjectPairs :
          /\ IsWall(objects[p[1]]) # IsWall(objects[p[2]])
          /\ GapSq(OccupiedRect(objects[p[1]]), OccupiedRect(objects[p[2]]))
                = 30 * 30

\* C13: validate_layout emits exactly one COLLISION error for each
\* unordered pair that is not wall-wall and whose occupied rectangles
\* intersect (a wall's being the centerline-based one), and none for any
\* pair of two walls, however they overlap.
C13_OneCollisionPerIntersectingPair ==
    ValidateCall =>
        /\ \A p \in ObjectPairs :
              ErrorsAbout(COLLISION, p) =
                 IF ~ BothWalls(p) /\ Intersecting(p) THEN 1 ELSE 0
        /\ ErrorsOf(COLLISION) =
              Cardinality({p \in ObjectPairs :
                              ~ BothWalls(p) /\ Intersecting(p)})

\* two crossing walls and a desk that only the horizontal wall's centerline
\* rectangle reaches: one COLLISION
C13_Witness ==
    /\ ValidateCall
    /\ ErrorsOf(COLLISION) = 1
    /\ \E p \in ObjectPairs : BothWalls(p) /\ Intersecting(p)
    /\ \E p \in ObjectPairs :
          /\ ~ BothWalls(p)
          /\ Intersecting(p)
          /\ ~ Overlap(_to_rect(objects[p[1]]), _to_rect(objects[p[2]]))

\* C14: validate_layout accumulates: for each unordered pair it emits
\* exactly one DISTANCE_TOO_SMALL iff required(a, b) > 0 and the distance
\* of the occupied rectangles is < required(a, b), also when the pair
\* produced a COLLISION or an object is out of bounds, and never for a pair
\* whose required distance is 0.
C14_OneDistanceErrorPerClosePair ==
    ValidateCall =>
        /\ \A p \in ObjectPairs :
              ErrorsAbout(DISTANCE_TOO_SMALL, p) = IF TooSmall(p) THEN 1 ELSE 0
        /\ ErrorsOf(DISTANCE_TOO_SMALL) =
              Cardinality({p \in ObjectPairs : TooSmall(p)})

\* a pair reported as COLLISION and as DISTANCE_TOO_SMALL, and a third
\* object out of bounds reported too
C14_Witness ==
    /\ ValidateCall
    /\ \E p \in ObjectPairs :
          ErrorsAbout(COLLISION, p) = 1 /\ ErrorsAbout(DISTANCE_TOO_SMALL, p) = 1
    /\ ErrorsOf(OUT_OF_BOUNDS) = 1
    /\ ErrorsOf(DISTANCE_TOO_SMALL) = 1

---------------------------------------------------------------------------
(* C15: NO_PATH_TO_EXIT *)

\* the cells a 4-connected chain of cells outside blocked reaches from the
\* cells of frontier
RECURSIVE Flood(_, _, _, _, _)
Flood(w, h, blocked, frontier, seen) ==
    LET fresh == {c \in UNION {_neighbors_4(f, w, h) : f \in frontier} :
                     c \notin blocked /\ c \notin seen}
    IN  IF fresh = {} THEN seen
        ELSE Flood(w, h, blocked, fresh, seen \cup fresh)

\* a chain of cells outside blocked leads from cell a to cell b
Chain(w, h, blocked, a, b) ==
    /\ a \notin blocked
    /\ b \in Flood(w, h, blocked, {a}, {a})

\* the position of the first object that is no wall
StartPosition ==
    CHOOSE i \in DOMAIN objects :
        /\ ~ IsWall(objects[i])
        /\ \A j \in DOMAIN objects : ~ IsWall(objects[j]) => i <= j

\* the grid of the layout's objects at these positions, doors carving and
\* exits clearing as in the layout
GridOf(positions) ==
    LET keep(obj) == \E i \in positions : objects[i] = obj
    IN  validation_build_occupancy_grid(
            [Layout EXCEPT !.objects = SelectSeq(objects, keep)], grid_size)

\* the cell of the start object's centre and the cell of the k-th exit
StartCell ==
    LET r == OccupiedRect(objects[StartPosition])
    IN  _clamp_cell(<<(2 * r.y + r.height) \div (2 * grid_size),
                      (2 * r.x + r.width) \div (2 * grid_size)>>,
                    GridOf({}).w, GridOf({}).h)

ExitCell(k) ==
    _clamp_cell(<<exit_points[k].y \div grid_size,
                  exit_points[k].x \div grid_size>>,
                GridOf({}).w, GridOf({}).h)

\* a chain of cells that no object other than the start object blocks leads
\* from the start cell to the cell of some exit
ChainToExit ==
    LET grid == GridOf(DOMAIN objects \ {StartPosition})
    IN  \E k \in DOMAIN exit_points :
           Chain(grid.w, grid.h, grid.blocked, StartCell, ExitCell(k))

\* the walls and doors alone leave no chain from the start cell to any exit
WallSeparates ==
    LET grid == GridOf({i \in DOMAIN objects :
                           IsWall(objects[i]) \/ _ui_type(objects[i]) = "Door"})
    IN  \A k \in DOMAIN exit_points :
           ~ Chain(grid.w, grid.h, grid.blocked, StartCell, ExitCell(k))

\* C15: for a layout with an exit point and an object that is no wall,
\* validate_layout emits NO_PATH_TO_EXIT when a wall fully separates the
\* first such object from every exit, and does not emit it when a
\* 4-connected chain of cells not blocked by any object other than the
\* start object itself leads from the cell of that object's centre to an
\* exit cell (so when a door lies across the separating wall); with no exit
\* points, or only walls, it never emits NO_PATH_TO_EXIT.
C15_NoPathIffSeparated ==
    ValidateCall =>
        IF exit_points = << >> \/ \A i \in DOMAIN objects : IsWall(objects[i])
        THEN ErrorsOf(NO_PATH_TO_EXIT) = 0
        ELSE /\ WallSeparates => ErrorsOf(NO_PATH_TO_EXIT) = 1
             /\ ChainToExit => ErrorsOf(NO_PATH_TO_EXIT) = 0

---------------------------------------------------------------------------
(* office_layout/algorithms/routing.py *)

\* how a call ends: with a value, or with an exception
Return(value) == [outcome |-> "return", value |-> value]

Raise(exc) == [outcome |-> "raise", exc |-> exc]

\* routing._is_door begins with `t == ObjectType.DOOR`.  The enum
\* ObjectType (object_types.py) has the members DESK, CHAIR, ARMCHAIR,
\* PLANT, WALL, PRINTER and MEETING_TABLE and no member DOOR, so the
\* attribute lookup raises AttributeError for every object, before the
\* comparison and before _ui_type is read.
routing_is_door(obj) == Raise("AttributeError")

\* the exit's cell and its 8 neighbours, where in the grid: the cells pass
\* 3 of _build_occupancy_grid clears
exit_neighbourhood(cell, w, h) ==
    IF 0 <= cell[1] /\ cell[1] < h /\ 0 <= cell[2] /\ cell[2] < w
    THEN {c2 \in {<<cell[1] + dr, cell[2] + dc>> : dr \in -1 .. 1, dc \in -1 .. 1} :
             /\ 0 <= c2[1] /\ c2[1] < h
             /\ 0 <= c2[2] /\ c2[2] < w}
    ELSE {}

\* routing._build_occupancy_grid.  w and h are ceil(room / cell_size).  The
\* loop of pass 1 calls _is_door on the first object, which raises: the
\* function returns only for a layout without objects, and then no cell
\* was marked when pass 3 clears the cells around the exits.
routing_build_occupancy_grid(model, cell_size) ==
    LET room == _room_rect(model)
        w == Max(1, (room.width + cell_size - 1) \div cell_size)
        h == Max(1, (room.height + cell_size - 1) \div cell_size)
        exit_pts == _get_exit_points(model)
        cleared == UNION {exit_neighbourhood(
                              world_to_cell(exit_pts[k][1] - left(room),
                                            exit_pts[k][2] - top(room),
                                            cell_size), w, h) :
                             k \in DOMAIN exit_pts}
    IN  IF model.objects # << >>
        THEN routing_is_door(model.objects[1])
        ELSE Return([w |-> w, h |-> h, blocked |-> {} \ cleared])

_cell_center_world_corner(room, cell_size, cell) ==
    <<left(room) + cell[2] * cell_size, top(room) + cell[1] * cell_size>>

\* _cell_center_world: (c + 0.5) * cell_size; the cell sizes of the model
\* are even
_cell_center_world(room, cell_size, cell) ==
    <<left(room) + ((2 * cell[2] + 1) * cell_size) \div 2,
      top(room) + ((2 * cell[1] + 1) * cell_size) \div 2>>

\* the cell in range and free: grid[r][c] == 0
free_in_grid(grid, cell) ==
    /\ 0 <= cell[1] /\ cell[1] < grid.h
    /\ 0 <= cell[2] /\ cell[2] < grid.w
    /\ cell \notin grid.blocked

\* the order in which _nearest_free_cell visits the offsets: by radius,
\* then dr, then dc
offset_le(a, b) ==
    \/ a[1] < b[1]
    \/ a[1] = b[1] /\ a[2] < b[2]
    \/ a[1] = b[1] /\ a[2] = b[2] /\ a[3] <= b[3]

\* mutant of _nearest_free_cell: one scan of the largest square
_nearest_free_cell_one_scan(grid, start, max_radius) ==
    LET hits == {o \in {<<max_radius, dr, dc>> :
                           dr \in (0 - max_radius) .. max_radius,
                           dc \in (0 - max_radius) .. max_radius} :
                    free_in_grid(grid, <<start[1] + o[2], start[2] + o[3]>>)}
        first == CHOOSE o \in hits : \A p \in hits : offset_le(o, p)
    IN  IF grid.w = 0 THEN None
        ELSE IF free_in_grid(grid, start) THEN Some(start)
        ELSE IF hits = {} THEN None
        ELSE Some(<<start[1] + first[2], start[2] + first[3]>>)

\* _nearest_free_cell: the start when free, else the first free cell of
\* the scan of the squares of radius 1 .. max_radius, else None
_nearest_free_cell(grid, start, max_radius) ==
    LET hits == {o \in {<<radius, dr, dc>> : radius \in 1 .. max_radius,
                                             dr \in (0 - max_radius) .. max_radius,
                                             dc \in (0 - max_radius) .. max_radius} :
                    /\ Abs(o[2]) <= o[1]
                    /\ Abs(o[3]) <= o[1]
                    /\ free_in_grid(grid, <<start[1] + o[2], start[2] + o[3]>>)}
        first == CHOOSE o \in hits : \A p \in hits : offset_le(o, p)
    IN  IF grid.w = 0 THEN None
        ELSE IF free_in_grid(grid, start) THEN Some(start)
        ELSE IF hits = {} THEN None
        ELSE Some(<<start[1] + first[2], start[2] + first[3]>>)

\* the walk back over came_from, reversed: from the start to x
RECURSIVE path_to(_, _)
path_to(came_from, x) ==
    IF came_from[x] = None THEN <<x>>
    ELSE Append(path_to(came_from, came_from[x][1]), x)

\* the while loop of _astar_path; the heap is a set, as in _astar_exists
RECURSIVE astar_path_loop(_, _, _, _, _)
astar_path_loop(grid, goal, open_heap, gscore, came_from) ==
    IF open_heap = {} THEN None
    ELSE LET entry == heap_min(open_heap)
             cur == entry[2]
             rest == open_heap \ {entry}
         IN  IF cur = goal THEN Some(path_to(came_from, cur))
             ELSE LET tentative == gscore[cur] + 1
                      better == {nb \in _neighbors_4(cur, grid.w, grid.h) :
                                    /\ nb \notin grid.blocked
                                    /\ \/ nb \notin DOMAIN gscore
                                       \/ tentative < gscore[nb]}
                      pushed == {<<tentative + manhattan(goal, nb), nb>> :
                                    nb \in better}
                      gscore2 == [c \in DOMAIN gscore \cup better |->
                                     IF c \in better THEN tentative
                                     ELSE gscore[c]]
                      came_from2 == [c \in DOMAIN came_from \cup better |->
                                        IF c \in better THEN Some(cur)
                                        ELSE came_from[c]]
                  IN  astar_path_loop(grid, goal, rest \cup pushed, gscore2,
                                      came_from2)

\* _astar_path: the Optional list of cells
_astar_path(grid, start, goal) ==
    IF grid.w = 0 THEN None
    ELSE IF ~ (/\ 0 <= start[1] /\ start[1] < grid.h
               /\ 0 <= start[2] /\ start[2] < grid.w
               /\ 0 <= goal[1] /\ goal[1] < grid.h
               /\ 0 <= goal[2] /\ goal[2] < grid.w)
    THEN None
    ELSE IF start \in grid.blocked \/ goal \in grid.blocked THEN None
    ELSE astar_path_loop(grid, goal, {<<0, start>>},
                         [c \in {start} |-> 0], [c \in {start} |-> None])

\* how far _nearest_free_cell looks for find_shortest_path_to_exit
RepairRadius == 12

\* the loop of find_shortest_path_to_exit over the exits, from the k-th
\* on: best is the Optional pair <<cells, exit>> kept so far
RECURSIVE best_path_loop(_, _, _, _, _, _, _)
best_path_loop(grid, room, cell, start, exits, k, best) ==
    IF k > Len(exits) THEN best
    ELSE LET clamped == _clamp_cell(
                            world_to_cell(exits[k][1] - left(room),
                                          exits[k][2] - top(room), cell),
                            grid.w, grid.h)
             ng == _nearest_free_cell(grid, clamped, RepairRadius)
             goal == IF clamped \in grid.blocked THEN ng ELSE Some(clamped)
             path_cells == IF goal = None THEN None
                           ELSE _astar_path(grid, start, goal[1])
             keep == IF path_cells = None THEN best
                     ELSE IF best = None \/ Len(path_cells[1]) < Len(best[1][1])
                     THEN Some(<<path_cells[1], exits[k]>>)
                     ELSE best
         IN  best_path_loop(grid, room, cell, start, exits, k + 1, keep)

\* find_shortest_path_to_exit(layout_model, start_xy, cell_size): None, a
\* list of points, or the exception of _build_occupancy_grid.  cell_size is
\* Optional.  The points have integer coordinates, so two of them differ by
\* more than 1e-6 iff they differ.
find_shortest_path_to_exit(model, start_xy, cell_size) ==
    LET exits == _get_exit_points(model)
        cell == IF cell_size = None THEN Min(_get_grid_size(model), 12)
                ELSE cell_size[1]
        built == routing_build_occupancy_grid(model, cell)
        grid == built.value
        room == _room_rect(model)
        clamped == _clamp_cell(world_to_cell(start_xy[1] - left(room),
                                             start_xy[2] - top(room), cell),
                               grid.w, grid.h)
        ns == _nearest_free_cell(grid, clamped, RepairRadius)
        start == IF clamped \in grid.blocked THEN ns[1] ELSE clamped
        best == best_path_loop(grid, room, cell, start, exits, 1, None)
        best_cells == best[1][1]
        best_exit_xy == best[1][2]
        pts == [i \in DOMAIN best_cells |->
                   _cell_center_world(room, cell, best_cells[i])]
    IN  IF exits = << >> THEN Return(None)
        ELSE IF built.outcome = "raise" THEN built
        ELSE IF grid.w = 0 THEN Return(None)
        ELSE IF clamped \in grid.blocked /\ ns = None THEN Return(None)
        ELSE IF best = None THEN Return(None)
        ELSE IF pts[Len(pts)] # best_exit_xy
        THEN Return(Some(Append(pts, best_exit_xy)))
        ELSE Return(Some(pts))

\* a call of find_shortest_path_to_exit on the layout
FindShortestPathToExit(start_xy, cell_size) ==
    /\ before' = Snapshot
    /\ last' = [op |-> "find_shortest_path_to_exit",
                args |-> [start_xy |-> start_xy, cell_size |-> cell_size],
                ret |-> find_shortest_path_to_exit(Layout, start_xy, cell_size)]
    /\ UNCHANGED <<others, files, room_width, room_height, grid_size, min_clearance,
                   objects, next_id, exit_points>>

---------------------------------------------------------------------------
(* The router at work *)

\* The room of tests/test_routing.py (100 x 40, grid_size 10) and its
\* objects: a desk, a full-height wall and a door across the wall.
Routed ==
    {<<DESK, 10, 10, 10, 10, EmptyMeta>>,
     <<WALL, 50, 0, 10, 40, EmptyMeta>>,
     <<DESK, 45, 15, 10, 10, DoorMeta>>}

\* no exit; one exit; two exits as far from (15, 15), in both orders; the
\* nearer exit second; an exit at the centre of a cell; an exit outside
\* the room
RoutedExits ==
    {<< >>,
     <<[x |-> 90, y |-> 20]>>,
     <<[x |-> 35, y |-> 15], [x |-> 15, y |-> 35]>>,
     <<[x |-> 15, y |-> 35], [x |-> 35, y |-> 15]>>,
     <<[x |-> 90, y |-> 20], [x |-> 35, y |-> 15]>>,
     <<[x |-> 95, y |-> 25]>>,
     <<[x |-> 120, y |-> 20]>>}

RoutedStarts == {<<15, 15>>, <<95, 25>>, <<-5, 50>>}

RoutedCellSizes == {None, Some(10), Some(20)}

RouteAdd ==
    \E p \in Routed :
        /\ Len(objects) < MaxObjects
        /\ AddObject(p[1], p[2], p[3], p[4], p[5], 0, p[6], None)

RouteExit == \E pts \in RoutedExits : SyncExitPoints(pts)

RouteFind ==
    \E start_xy \in RoutedStarts, cell_size \in RoutedCellSizes :
        FindShortestPathToExit(start_xy, cell_size)

NextRoute == RouteAdd \/ RouteExit \/ RouteFind

SpecRoute == InitValidate /\ [][NextRoute]_vars

---------------------------------------------------------------------------
(* C16 .. C19: find_shortest_path_to_exit *)

FindCall == last.op = "find_shortest_path_to_exit"

FindReturned == FindCall /\ last.ret.outcome = "return"

\* the call returned a polyline
FoundPath == FindReturned /\ last.ret.value # None

Polyline == last.ret.value[1]

\* the cell size of the call
CellSize ==
    IF last.args.cell_size = None THEN Min(grid_size, 12)
    ELSE last.args.cell_size[1]

\* the occupancy grid of the layout, rasterized at that cell size: the
\* outcome of the grid's construction
Rasterized == routing_build_occupancy_grid(Layout, CellSize)

\* the cell of a point, clamped into the grid, and repaired: itself when
\* free, else the nearest free cell within radius 12, if any
CellOf(grid, xy) ==
    _clamp_cell(<<xy[2] \div CellSize, xy[1] \div CellSize>>, grid.w, grid.h)

Repaired(grid, xy) == _nearest_free_cell(grid, CellOf(grid, xy), RepairRadius)

ExitXY(k) == <<exit_points[k].x, exit_points[k].y>>

\* the number of cells of a shortest chain of free cells from the cells of
\* frontier (d cells away from the start) to goal; 0 if there is none
RECURSIVE ChainCells(_, _, _, _, _)
ChainCells(grid, frontier, seen, goal, d) ==
    IF goal \in frontier THEN d
    ELSE LET fresh == {c \in UNION {_neighbors_4(f, grid.w, grid.h) :
                                       f \in frontier} :
                          c \notin grid.blocked /\ c \notin seen}
         IN  IF fresh = {} THEN 0
             ELSE ChainCells(grid, fresh, seen \cup fresh, goal, d + 1)

\* the number of cells of the grid path to the k-th exit; 0 if the exit is
\* not reachable
PathCells(grid, k) ==
    LET start == Repaired(grid, last.args.start_xy)
        goal == Repaired(grid, ExitXY(k))
    IN  IF start = None \/ goal = None THEN 0
        ELSE ChainCells(grid, {start[1]}, {start[1]}, goal[1], 1)

Reachable(grid) == {k \in DOMAIN exit_points : PathCells(grid, k) > 0}

\* C16: find_shortest_path_to_exit(L, p, cell_size) returns none iff, on
\* the occupancy grid rasterized at that cell size, A* from the (repaired)
\* start cell fails for every exit, which includes no exit points and no
\* free cell within radius 12 of a blocked start; whenever some exit's
\* (repaired) goal cell is connected to the start cell through free cells
\* it returns a polyline.
C16_NoneIffNoExitReachable ==
    FindCall =>
        /\ last.ret.outcome = "return"
        /\ Rasterized.outcome = "return"
              => (last.ret.value = None <=> Reachable(Rasterized.value) = {})

\* the centre of a cell
Centre(cell) ==
    <<((2 * cell[2] + 1) * CellSize) \div 2,
      ((2 * cell[1] + 1) * CellSize) \div 2>>

\* the free cells of the grid
FreeCells(grid) ==
    {c \in (0 .. grid.h - 1) \X (0 .. grid.w - 1) : c \notin grid.blocked}

\* two points are the centres of 4-adjacent cells
AdjacentCentres(p, q) ==
    \/ p[1] = q[1] /\ Abs(p[2] - q[2]) = CellSize
    \/ p[2] = q[2] /\ Abs(p[1] - q[1]) = CellSize

\* C17: every polyline returned by find_shortest_path_to_exit ends with a
\* vertex exactly equal to one of the layout's exit points, and every
\* earlier vertex is the centre of a free grid cell, consecutive centres
\* belonging to 4-adjacent cells, the first being the (repaired) start
\* cell.
C17_PolylineOfCentresEndsAtExit ==
    FoundPath =>
        LET grid == Rasterized.value
            n == Len(Polyline)
        IN  /\ \E k \in DOMAIN exit_points : Polyline[n] = ExitXY(k)
            /\ \A i \in 1 .. (n - 1) :
                  \E c \in FreeCells(grid) : Polyline[i] = Centre(c)
            /\ \A i \in 1 .. (n - 2) : AdjacentCentres(Polyline[i], Polyline[i + 1])
            /\ Polyline[1] = Centre(Repaired(grid, last.args.start_xy)[1])

\* a polyline over several cells, from a start outside the room clamped to
\* a corner cell, ending at an exit that is no cell centre
C17_Witness ==
    /\ FoundPath
    /\ Len(Polyline) >= 5
    /\ last.args.start_xy[1] < 0
    /\ \A c \in FreeCells(Rasterized.value) : Polyline[Len(Polyline)] # Centre(c)

\* the exit the claim selects: of the reachable exits with the fewest
\* cells, the first in the order of exit_points
Selected(grid) ==
    CHOOSE k \in Reachable(grid) :
        \A j \in Reachable(grid) :
            \/ PathCells(grid, k) < PathCells(grid, j)
            \/ PathCells(grid, k) = PathCells(grid, j) /\ k <= j

\* C18: with several exit points, find_shortest_path_to_exit returns the
\* path to the exit whose grid path has the fewest cells among all
\* reachable exits; when two exits have paths with the same number of
\* cells, the first in the order of exit_points is chosen.
C18_FewestCellsFirstExitWins ==
    (FindCall /\ Len(exit_points) >= 2) =>
        /\ last.ret.outcome = "return"
        /\ Rasterized.outcome = "return"
        /\ Reachable(Rasterized.value) # {}
              => /\ last.ret.value # None
                 /\ Polyline[Len(Polyline)] = ExitXY(Selected(Rasterized.value))
                 /\ Len(Polyline) \in
                       {PathCells(Rasterized.value, Selected(Rasterized.value)),
                        PathCells(Rasterized.value, Selected(Rasterized.value)) + 1}

\* the doors of the layout, by position
Doors == {i \in DOMAIN objects : _ui_type(objects[i]) = "Door"}

\* the cells that the rectangle r covers in a grid of this cell size
CoveredCells(r, grid) ==
    {c \in (0 .. grid.h - 1) \X (0 .. grid.w - 1) :
        Overlap(r, Rect(c[2] * CellSize, c[1] * CellSize, CellSize, CellSize))}

\* C19: in the routing occupancy grid doors never obstruct and always
\* carve: every cell covered by a door's occupied rectangle is free in the
\* final grid, even if a wall covers the cell and whatever the order of
\* the door and the wall in the layout; so, for a room cut by a full-height
\* wall, adding a door across the wall turns the none of
\* find_shortest_path_to_exit into a polyline ending at the exit.
C19_DoorsCarveTheGrid ==
    (FindCall /\ exit_points # << >>) =>
        /\ Rasterized.outcome = "return"
        /\ \A i \in Doors :
              CoveredCells(OccupiedRect(objects[i]), Rasterized.value)
                 \cap Rasterized.value.blocked = {}
        /\ (\E i \in Doors, j \in DOMAIN objects :
               /\ IsWall(objects[j])
               /\ Overlap(OccupiedRect(objects[i]), OccupiedRect(objects[j])))
              => /\ FoundPath
                 /\ \E k \in DOMAIN exit_points :
                       Polyline[Len(Polyline)] = ExitXY(k)

---------------------------------------------------------------------------
(* office_layout/storage/json_io.py: save_layout *)

\* What save_layout is handed as layout_model: a LayoutModel (the layout
\* of the model), None, an object without to_dict, one whose to_dict
\* returns a list, and one whose to_dict returns a mapping that json cannot
\* serialize (the classes of tests/test_json_io.py).
LAYOUT_MODEL == "LayoutModel"

NO_MODEL == "None"

NO_TO_DICT == "NoToDict"

BAD_TO_DICT == "BadToDict"

NOT_JSON_SERIALIZABLE == "NotJsonSerializable"

\* layout_model.to_dict()
model_to_dict(kind, model) ==
    CASE kind = LAYOUT_MODEL -> to_dict(model)
      [] kind = BAD_TO_DICT -> <<1, 2, 3>>
      [] kind = NOT_JSON_SERIALIZABLE -> [bad |-> {1, 2, 3}]

\* isinstance(data, Mapping)
is_mapping(kind) == kind \in {LAYOUT_MODEL, NOT_JSON_SERIALIZABLE}

\* json.dump raises TypeError on a set
json_serializable(kind) == kind = LAYOUT_MODEL

\* target.suffix.lower(), for the suffixes of the model
lower(s) == IF s = ".JSON" THEN ".json" ELSE s

\* The text of a file: what json.dump(data, indent=2, sort_keys=True) and
\* the final "\n" wrote of data.  A dump that raised on the way, in the
\* encoder or in the write to the disk, leaves a part of the text.
Document(data) == [json |-> data, written |-> "all"]

PartOfDocument(data) == [json |-> data, written |-> "part"]

\* What the operating system lets fail in a call: nothing, the opening of
\* the temporary file, a write to it, or the replace.
NO_FAULT == "none"

OPEN_FAILS == "open"

WRITE_FAILS == "write"

REPLACE_FAILS == "replace"

\* the body of the try statement: the files then, and the Optional
\* exception
save_try(fs, target, tmp_path, kind, data, fault) ==
    IF fault = OPEN_FAILS
    THEN [files |-> fs, exc |-> Some("OSError")]
    ELSE IF ~ json_serializable(kind)
    THEN [files |-> [fs EXCEPT ![tmp_path] = Some(PartOfDocument(data))],
          exc |-> Some("TypeError")]
    ELSE IF fault = WRITE_FAILS
    THEN [files |-> [fs EXCEPT ![tmp_path] = Some(PartOfDocument(data))],
          exc |-> Some("OSError")]
    ELSE IF fault = REPLACE_FAILS
    THEN [files |-> [fs EXCEPT ![tmp_path] = Some(Document(data))],
          exc |-> Some("OSError")]
    ELSE [files |-> [fs EXCEPT ![tmp_path] = None,
                               ![target] = Some(Document(data))],
          exc |-> None]

save_finally_keep(fs, tmp_path, unlink_ok) == fs

\* the finally clause: the temporary file is unlinked if it exists, and an
\* OSError of the unlink is passed over
save_finally(fs, tmp_path, unlink_ok) ==
    IF fs[tmp_path] # None /\ unlink_ok
    THEN [fs EXCEPT ![tmp_path] = None]
    ELSE fs

\* save_layout(path, layout_model): the files when the call ends, and how
\* it ends.  The directory of the path exists, so no mkdir is made.
save_layout(fs, path, kind, model, fault, unlink_ok) ==
    LET target == path
        data == model_to_dict(kind, model)
        tmp_path == with_tmp_suffix(target)
        tried == save_try(fs, target, tmp_path, kind, data, fault)
        final == save_finally(tried.files, tmp_path, unlink_ok)
    IN  IF kind = NO_MODEL
        THEN [files |-> fs, ret |-> Raise("ValueError")]
        ELSE IF kind = NO_TO_DICT
        THEN [files |-> fs, ret |-> Raise("TypeError")]
        ELSE IF lower(suffix(target)) # ".json"
        THEN [files |-> fs, ret |-> Raise("ValueError")]
        ELSE IF ~ is_mapping(kind)
        THEN [files |-> fs, ret |-> Raise("TypeError")]
        ELSE IF tried.exc # None
        THEN [files |-> final, ret |-> Raise(tried.exc[1])]
        ELSE [files |-> final, ret |-> Return(None)]

\* a call of save_layout
SaveLayout(path, kind, fault, unlink_ok) ==
    LET done == save_layout(files, path, kind, Layout, fault, unlink_ok)
    IN  /\ before' = Snapshot
        /\ files' = done.files
        /\ last' = [op |-> "save_layout",
                    args |-> [path |-> path, layout_model |-> kind],
                    os |-> [fault |-> fault, unlink_ok |-> unlink_ok],
                    ret |-> done.ret]
        /\ UNCHANGED <<others, room_width, room_height, grid_size, min_clearance,
                       objects, next_id, exit_points>>

---------------------------------------------------------------------------
(* Saving at work *)

ModelKinds ==
    {LAYOUT_MODEL, NO_MODEL, NO_TO_DICT, BAD_TO_DICT, NOT_JSON_SERIALIZABLE}

Faults == {NO_FAULT, OPEN_FAILS, WRITE_FAILS, REPLACE_FAILS}

\* the layout grows by desks between the saves
SaveAdd ==
    /\ Len(objects) < MaxObjects
    /\ AddObject(DESK, 10, 10, 10, 10, 0, EmptyMeta, None)

SaveCall ==
    \E path \in SavePaths, kind \in ModelKinds, fault \in Faults,
       unlink_ok \in BOOLEAN :
        SaveLayout(path, kind, fault, unlink_ok)

NextSave == SaveAdd \/ SaveCall

SpecSave == InitValidate /\ [][NextSave]_vars

---------------------------------------------------------------------------
(* C20: save_layout and the target file *)

Saved == last.op = "save_layout"

SaveRaised == Saved /\ last.ret.outcome = "raise"

SaveReturned == Saved /\ last.ret.outcome = "return"

Target == last.args.path

TmpFile == Append(Target, ".tmp")

\* a file is absent or holds a complete document
AbsentOrComplete(content) == content = None \/ content[1].written = "all"

\* the target is as before the call, and no partial document
TargetIntact ==
    /\ files[Target] = before.files[Target]
    /\ AbsentOrComplete(files[Target])

\* the target holds the complete document of the layout
TargetIsNewDocument ==
    files[Target] = Some([json |-> to_dict(Layout), written |-> "all"])

\* the call raised in its checks, before the try statement
RaisedInChecks ==
    /\ SaveRaised
    /\ \/ last.args.layout_model \in {NO_MODEL, NO_TO_DICT, BAD_TO_DICT}
       \/ suffix(Target) # ".json"

---------------------------------------------------------------------------
(* office_layout/utils/geometry.py: rect_to_covered_cells at work *)

\* the rectangles handed in: inside the grid, across its edges and outside
\* it, with edges on and off the cell boundaries, of negative and of no
\* width
CellRects ==
    {Rect(x, y, w, h) : x \in {-20, -5, 0, 5, 10, 20, 30, 40},
                        y \in {-10, 0, 5, 20},
                        w \in {-10, 0, 5, 10, 20},
                        h \in {0, 10, 15}}

CellGrids == {5, 10}

CellRows == {1, 2}

CellCols == {1, 3}

\* the arguments of one call
InitCells ==
    /\ InitLayoutOf(100, 40, 10)
    /\ Idle
    /\ \E r \in CellRects, grid \in CellGrids, max_rows \in CellRows,
          max_cols \in CellCols :
           last = [op |-> "arguments",
                   args |-> [r |-> r, grid |-> grid,
                             max_rows |-> max_rows, max_cols |-> max_cols]]

\* the call of rect_to_covered_cells on the arguments
RectToCoveredCells ==
    /\ last.op = "arguments"
    /\ last' = [op |-> "rect_to_covered_cells",
                args |-> last.args,
                ret |-> rect_to_covered_cells(last.args.r, last.args.grid,
                                             last.args.max_rows,
                                             last.args.max_cols)]
    /\ UNCHANGED <<others, before, files, room_width, room_height, grid_size,
                   min_clearance, objects, next_id, exit_points>>

NextCells == RectToCoveredCells

SpecCells == InitCells /\ [][NextCells]_vars

---------------------------------------------------------------------------
(* C21: rect_to_covered_cells and the cells a rectangle overlaps *)

CellsReturned == last.op = "rect_to_covered_cells"

\* the square [col*g, (col+1)*g) x [row*g, (row+1)*g) of a cell is
\* overlapped by the normalized rectangle
Overlapped(r, cell, g) ==
    LET rr == normalized(r)
    IN  /\ left(rr) < (cell[2] + 1) * g
        /\ right(rr) > cell[2] * g
        /\ top(rr) < (cell[1] + 1) * g
        /\ bottom(rr) > cell[1] * g

OverlappedCells(r, g, max_rows, max_cols) ==
    {cell \in (0 .. max_rows - 1) \X (0 .. max_cols - 1) :
        Overlapped(r, cell, g)}

\* C21: rect_to_covered_cells(r, g, max_rows, max_cols) returns exactly the
\* cells of the grid whose square the normalized rectangle overlaps, each
\* once: an edge on a cell boundary does not add the next cell, and no cell
\* that r does not cover is returned, also when r lies partly or wholly
\* outside the grid.
C21_ExactlyTheOverlappedCells ==
    CellsReturned =>
        /\ elements(last.ret) =
              OverlappedCells(last.args.r, last.args.grid,
                              last.args.max_rows, last.args.max_cols)
        /\ \A i, j \in DOMAIN last.ret : i # j => last.ret[i] # last.ret[j]

---------------------------------------------------------------------------
(* validation._build_occupancy_grid and routing._build_occupancy_grid on
   one layout *)

\* both rasterizations of the layout at one cell size
BuildOccupancyGrids(cell_size) ==
    /\ before' = Snapshot
    /\ last' = [op |-> "_build_occupancy_grid",
                args |-> [cell_size |-> cell_size],
                validation |-> validation_build_occupancy_grid(Layout, cell_size),
                routing |-> routing_build_occupancy_grid(Layout, cell_size)]
    /\ UNCHANGED <<others, files, room_width, room_height, grid_size, min_clearance,
                   objects, next_id, exit_points>>

\* rooms that are and that are not a whole number of cells wide and high
GridRooms == {<<100, 40>>, <<95, 45>>}

GridCellSizes == {10, 20}

InitGrids ==
    /\ \E room \in GridRooms : InitLayoutOf(room[1], room[2], 10)
    /\ last = [op |-> "init"]
    /\ Idle

GridBuild == \E cell_size \in GridCellSizes : BuildOccupancyGrids(cell_size)

NextGrids == RouteAdd \/ RouteExit \/ GridBuild

SpecGrids == InitGrids /\ [][NextGrids]_vars

---------------------------------------------------------------------------
(* C22: one rasterization for validation and routing *)

GridsBuilt == last.op = "_build_occupancy_grid"

\* ceil(a / b) of positive integers
CeilDiv(a, b) == (a + b - 1) \div b

\* the start of validation's path check: the centre of the first object
\* that is no wall
HasStart == \E i \in DOMAIN objects : ~ IsWall(objects[i])

FirstStart ==
    LET i == CHOOSE i \in DOMAIN objects :
                 /\ ~ IsWall(objects[i])
                 /\ \A j \in 1 .. i - 1 : IsWall(objects[j])
        centre == _rect_center_doubled(OccupiedRect(objects[i]))
    IN  <<centre[1] \div 2, centre[2] \div 2>>

EmitsNoPath ==
    LET errors == validate_layout(Layout)
    IN  \E k \in DOMAIN errors : errors[k].code = NO_PATH_TO_EXIT

\* C22: for every layout and cell size the occupancy grids of validation
\* and of routing have the same dimensions, w = max(1, ceil(room_width /
\* cell_size)) and h = max(1, ceil(room_height / cell_size)), and the same
\* blocked cells; so validate_layout emits NO_PATH_TO_EXIT exactly when
\* find_shortest_path_to_exit from the same start at cell_size = grid_size
\* returns none.
C22_SameRasterization ==
    GridsBuilt =>
        /\ last.routing.outcome = "return"
        /\ last.validation.w = Max(1, CeilDiv(room_width, last.args.cell_size))
        /\ last.validation.h = Max(1, CeilDiv(room_height, last.args.cell_size))
        /\ last.routing.value = last.validation
        /\ HasStart =>
              (EmitsNoPath <=>
                  find_shortest_path_to_exit(Layout, FirstStart,
                                             Some(grid_size)) = Return(None))

---------------------------------------------------------------------------
(* office_layout/algorithms/routing.py: _astar_path, one iteration of its
   while loop at a time *)

\* _neighbors_4, in the order the generator yields the cells: up, down,
\* left, right
neighbors_4_order(cell, w, h) ==
    LET r == cell[1]
        c == cell[2]
    IN  (IF r > 0 THEN <<(<<r - 1, c>>)>> ELSE << >>)
        \o (IF r < h - 1 THEN <<(<<r + 1, c>>)>> ELSE << >>)
        \o (IF c > 0 THEN <<(<<r, c - 1>>)>> ELSE << >>)
        \o (IF c < w - 1 THEN <<(<<r, c + 1>>)>> ELSE << >>)

\* the locals of a run: the heap as a set (no entry is in it twice), the
\* two dicts, and for the record the entries in the order of their
\* heappush, the entry of the last heappop and the heap it was popped from
Searching(grid, start, goal, open_heap, gscore, came_from, pushed, popped, popped_from) ==
    [phase |-> "running", grid |-> grid, start |-> start, goal |-> goal,
     open_heap |-> open_heap, gscore |-> gscore, came_from |-> came_from,
     pushed |-> pushed, popped |-> popped, popped_from |-> popped_from]

\* the run returned
Returned(s, result) ==
    [phase |-> "done", grid |-> s.grid, start |-> s.start, goal |-> s.goal,
     pushed |-> s.pushed, popped |-> s.popped, popped_from |-> s.popped_from,
     result |-> result]

\* the checks before the loop, and the first heappush
AstarStart ==
    /\ search.phase = "called"
    /\ LET grid == search.grid
           start == search.start
           goal == search.goal
       IN  search' =
              IF grid.w = 0 THEN Returned(search, None)
              ELSE IF ~ (/\ 0 <= start[1] /\ start[1] < grid.h
                         /\ 0 <= start[2] /\ start[2] < grid.w
                         /\ 0 <= goal[1] /\ goal[1] < grid.h
                         /\ 0 <= goal[2] /\ goal[2] < grid.w)
              THEN Returned(search, None)
              ELSE IF start \in grid.blocked \/ goal \in grid.blocked
              THEN Returned(search, None)
              ELSE Searching(grid, start, goal, {<<0, start>>},
                             [c \in {start} |-> 0], [c \in {start} |-> None],
                             <<(<<0, start>>)>>, None, {})
    /\ UNCHANGED <<editor, last, before, files, room_width, room_height,
                   grid_size, min_clearance, objects, next_id, exit_points>>

\* one iteration of the while loop: the heappop, the return at the goal,
\* or the loop over the neighbours
AstarIterate ==
    /\ search.phase = "running"
    /\ search.open_heap # {}
    /\ LET grid == search.grid
           goal == search.goal
           entry == heap_min(search.open_heap)
           cur == entry[2]
           rest == search.open_heap \ {entry}
           tentative == search.gscore[cur] + 1
           better(nb) == /\ nb \notin grid.blocked
                         /\ \/ nb \notin DOMAIN search.gscore
                            \/ tentative < search.gscore[nb]
           found == SelectSeq(neighbors_4_order(cur, grid.w, grid.h), better)
           pushes == [k \in DOMAIN found |->
                         <<tentative + manhattan(goal, found[k]), found[k]>>]
           gscore2 == [c \in DOMAIN search.gscore \cup elements(found) |->
                          IF c \in elements(found) THEN tentative
                          ELSE search.gscore[c]]
           came_from2 == [c \in DOMAIN search.came_from \cup elements(found) |->
                             IF c \in elements(found) THEN Some(cur)
                             ELSE search.came_from[c]]
           at_pop == [search EXCEPT !.popped = Some(entry),
                                    !.popped_from = search.open_heap]
       IN  search' =
              IF cur = goal
              THEN Returned(at_pop, Some(path_to(search.came_from, cur)))
              ELSE Searching(grid, search.start, goal,
                             rest \cup elements(pushes), gscore2, came_from2,
                             search.pushed \o pushes, Some(entry),
                             search.open_heap)
    /\ UNCHANGED <<editor, last, before, files, room_width, room_height,
                   grid_size, min_clearance, objects, next_id, exit_points>>

\* the heap is empty: return None
AstarExhausted ==
    /\ search.phase = "running"
    /\ search.open_heap = {}
    /\ search' = Returned(search, None)
    /\ UNCHANGED <<editor, last, before, files, room_width, room_height,
                   grid_size, min_clearance, objects, next_id, exit_points>>

---------------------------------------------------------------------------
(* A* at work *)

\* how many cells of a grid are blocked, at most
MaxBlocked == 3

\* grids of 3 rows and 4 columns
SearchGrids ==
    {[w |-> 4, h |-> 3, blocked |-> b] :
        b \in {b \in SUBSET ((0 .. 2) \X (0 .. 3)) :
                  Cardinality(b) <= MaxBlocked}}

\* a corner and an inner cell
SearchStarts == {<<0, 0>>, <<1, 1>>}

\* the far corner, the end of the first row, a start, and a cell out of
\* range
SearchGoals == {<<2, 3>>, <<0, 3>>, <<1, 1>>, <<0, 4>>}

InitAstar ==
    /\ InitLayoutOf(100, 40, 10)
    /\ NoEditor
    /\ last = [op |-> "init"]
    /\ \E grid \in SearchGrids, start \in SearchStarts, goal \in SearchGoals :
           search = [phase |-> "called", grid |-> grid, start |-> start,
                     goal |-> goal, pushed |-> << >>, popped |-> None,
                     popped_from |-> {}]

NextAstar == AstarStart \/ AstarIterate \/ AstarExhausted

SpecAstar == InitAstar /\ [][NextAstar]_vars

\* the interpreter runs the call to its end
FairAstar == SpecAstar /\ WF_vars(NextAstar)

---------------------------------------------------------------------------
(* C23: _astar_path and breadth-first search *)

AstarDone == search.phase = "done"

\* two cells are 4-adjacent
Adjacent(a, b) == Abs(a[1] - b[1]) + Abs(a[2] - b[2]) = 1

\* breadth-first search over the free cells: the number of steps from the
\* cells of frontier, d steps from the start, to goal; -1 if no chain of
\* free cells leads there
RECURSIVE BfsDistance(_, _, _, _, _)
BfsDistance(grid, frontier, seen, goal, d) ==
    IF goal \in frontier THEN d
    ELSE LET fresh == {c \in FreeCells(grid) \ seen :
                          \E f \in frontier : Adjacent(f, c)}
         IN  IF fresh = {} THEN -1
             ELSE BfsDistance(grid, fresh, seen \cup fresh, goal, d + 1)

\* the distance from start to goal; -1 if one of them is out of range or
\* blocked, or no chain joins them
ShortestDistance(grid, start, goal) ==
    IF start \in FreeCells(grid) /\ goal \in FreeCells(grid)
    THEN BfsDistance(grid, {start}, {start}, goal, 0)
    ELSE -1

AgreesWithBfs ==
    LET grid == search.grid
        distance == ShortestDistance(grid, search.start, search.goal)
        path == search.result[1]
    IN  /\ search.result = None <=> distance = -1
        /\ search.result # None =>
              /\ path[1] = search.start
              /\ path[Len(path)] = search.goal
              /\ \A k \in DOMAIN path : path[k] \in FreeCells(grid)
              /\ \A k \in 1 .. Len(path) - 1 : Adjacent(path[k], path[k + 1])
              /\ Len(path) = distance + 1
        /\ search.result = _astar_path(grid, search.start, search.goal)

\* C23: _astar_path agrees with breadth-first search on every grid, start
\* and goal: it terminates; it returns none iff start or goal is out of
\* range or blocked or no 4-connected path of free cells joins them;
\* otherwise it returns a list of cells from start to goal, all free, each
\* 4-adjacent to the next, of BFS distance plus one cells.
C23_AstarAgreesWithBfs == [](AstarDone => AgreesWithBfs) /\ <>AstarDone

\* a path that goes around blocked cells: longer than the straight way
C23_Witness ==
    /\ AstarDone
    /\ search.result # None
    /\ Len(search.result[1]) > manhattan(search.goal, search.start) + 1

---------------------------------------------------------------------------
(* C24: the order of the heappops *)

\* a heappop has been made in the run
Popped == search.phase \in {"running", "done"} /\ search.popped # None

\* the place of an entry among the heappushes of the run
PushedAt(entry) == CHOOSE k \in DOMAIN search.pushed : search.pushed[k] = entry

\* the entries that were in the heap with the f of the popped entry
Ties == {o \in search.popped_from : o[1] = search.popped[1][1]}

\* C24: A* breaks ties by insertion order: whenever several entries of the
\* open heap have the same minimal f, _astar_path expands the one that was
\* pushed earliest, so that the path among equally short paths follows
\* from the push order and not from the cells' coordinates.
C24_TiesPopInInsertionOrder ==
    Popped => \A o \in Ties : PushedAt(search.popped[1]) <= PushedAt(o)

---------------------------------------------------------------------------
(* C25: the cells around an exit in routing's grid *)

\* the exit points of the layout that lie inside the room
ExitsInRoom ==
    {k \in DOMAIN exit_points :
        /\ 0 <= exit_points[k].x /\ exit_points[k].x < room_width
        /\ 0 <= exit_points[k].y /\ exit_points[k].y < room_height}

\* the cell of the k-th exit and its 8 neighbours, those in range
AroundExit(k, cell_size, grid) ==
    LET row == exit_points[k].y \div cell_size
        col == exit_points[k].x \div cell_size
    IN  {c \in (0 .. grid.h - 1) \X (0 .. grid.w - 1) :
            Abs(c[1] - row) <= 1 /\ Abs(c[2] - col) <= 1}

\* C25: for every layout and every exit point inside the room, in the grid
\* that routing._build_occupancy_grid returns the exit's cell and each of
\* its in-range 8 neighbours are free, whatever obstacles cover them: the
\* exits are cleared after the obstacles are marked and the doors carved.
C25_ExitNeighbourhoodFree ==
    GridsBuilt =>
        /\ last.routing.outcome = "return"
        /\ \A k \in ExitsInRoom :
              AroundExit(k, last.args.cell_size, last.routing.value)
                 \cap last.routing.value.blocked = {}

---------------------------------------------------------------------------
(* office_layout/algorithms/routing.py: _nearest_free_cell at work *)

\* how many cells of a grid are free, at most
MaxFree == 3

\* grids of 3 rows and 4 columns, most of their cells blocked
NearestGrids ==
    {[w |-> 4, h |-> 3, blocked |-> ((0 .. 2) \X (0 .. 3)) \ free] :
        free \in {f \in SUBSET ((0 .. 2) \X (0 .. 3)) :
                     Cardinality(f) <= MaxFree}}

\* an inner cell, a corner, and cells out of range
NearestStarts == {<<1, 1>>, <<0, 0>>, <<-1, -1>>, <<1, 5>>}

\* no search, one ring, two rings, and the radius
\* find_shortest_path_to_exit gives
NearestRadii == {0, 1, 2, RepairRadius}

\* the arguments of one call
InitNearest ==
    /\ InitLayoutOf(100, 40, 10)
    /\ Idle
    /\ \E grid \in NearestGrids, start \in NearestStarts,
          max_radius \in NearestRadii :
           last = [op |-> "arguments",
                   args |-> [grid |-> grid, start |-> start,
                             max_radius |-> max_radius]]

\* the call of _nearest_free_cell on the arguments
NearestFreeCell ==
    /\ last.op = "arguments"
    /\ last' = [op |-> "_nearest_free_cell",
                args |-> last.args,
                ret |-> _nearest_free_cell(last.args.grid, last.args.start,
                                           last.args.max_radius)]
    /\ UNCHANGED <<others, before, files, room_width, room_height, grid_size,
                   min_clearance, objects, next_id, exit_points>>

NextNearest == NearestFreeCell

SpecNearest == InitNearest /\ [][NextNearest]_vars

---------------------------------------------------------------------------
(* C26: _nearest_free_cell *)

NearestCall == last.op = "_nearest_free_cell"

\* the Chebyshev distance of two cells
Chebyshev(a, b) == Max(Abs(a[1] - b[1]), Abs(a[2] - b[2]))

\* the free cells of the grid within max_radius of start
FreeNear ==
    {c \in FreeCells(last.args.grid) :
        Chebyshev(c, last.args.start) <= last.args.max_radius}

\* C26: _nearest_free_cell(grid, start, max_radius) returns start itself
\* when start is in range and free; otherwise an in-range free cell whose
\* Chebyshev distance to start is minimal among the free cells and at most
\* max_radius; it returns none iff no free cell lies within Chebyshev
\* distance max_radius of start.
C26_NearestFreeCell ==
    NearestCall =>
        /\ last.args.start \in FreeCells(last.args.grid)
              => last.ret = Some(last.args.start)
        /\ last.ret = None <=> FreeNear = {}
        /\ last.ret # None =>
              /\ last.ret[1] \in FreeNear
              /\ \A c \in FreeNear :
                    Chebyshev(last.ret[1], last.args.start)
                       <= Chebyshev(c, last.args.start)

\* a blocked start whose nearest free cell is two rings away, with a free
\* cell farther off
C26_Witness ==
    /\ NearestCall
    /\ last.args.start \in last.args.grid.blocked
    /\ last.ret # None
    /\ Chebyshev(last.ret[1], last.args.start) = 2
    /\ \E c \in FreeNear : Chebyshev(c, last.args.start) > 2

---------------------------------------------------------------------------
(* office_layout/graphics/scene.py: the items of the scene *)

\* OfficeScene._history_limit: the most snapshots the undo stack keeps (the
\* program's is 80)
_history_limit == 3

\* OfficeScene.wall_thickness
wall_thickness == 10

\* min_len of mousePressEvent and min_length of mouseMoveEvent
min_length == 40

\* size of add_item_at: a placed item's corner is the click less half of it
size == 50

\* A graphics item: its pos() (x, y), the width and height of its rect() or
\* boundingRect(), its rotation(), and the attributes the scene sets on it,
\* orientation (a wall's) and logical_id (None when the attribute is
\* absent).  An exit marker is kept by the centre of its
\* sceneBoundingRect(), the point _create_exit_marker centres it on.
Item(ui_type, x, y, w, h, rotation, orientation, logical_id) ==
    [ui_type |-> ui_type, x |-> x, y |-> y, w |-> w, h |-> h,
     rotation |-> rotation, orientation |-> orientation,
     logical_id |-> logical_id]

_create_exit_marker(x, y) == Item("Exit", x, y, 0, 0, 0, "", None)

_is_exit_marker(item) == item.ui_type = "Exit"

\* isinstance(item, WallItem)
is_wall_item(item) == item.ui_type = "Wall"

\* QGraphicsScene.items(): the items in descending stacking order, which
\* for items of one z value is the newest first
scene_items(its) == [k \in 1 .. Len(its) |-> its[Len(its) + 1 - k]]

\* _sync_exit_points_from_markers: the centres of the markers, in the
\* order of items()
_sync_exit_points_from_markers(its) ==
    LET listed == scene_items(its)
        marker(k) == _is_exit_marker(listed[k])
        RECURSIVE pts(_)
        pts(k) == IF k > Len(listed) THEN << >>
                  ELSE IF marker(k)
                  THEN <<[x |-> listed[k].x, y |-> listed[k].y]>> \o pts(k + 1)
                  ELSE pts(k + 1)
    IN  pts(1)

\* _map_ui_type_to_object_type builds its dict before it looks ui_type up,
\* and the dict names ObjectType.DOOR, SINK, TOILET and WASHBASIN, which
\* the enum does not have: the call raises AttributeError for every ui_type
_map_ui_type_to_object_type(ui_type) == Raise("AttributeError")

\* _register_item_in_model: None for an exit marker; else add_object with
\* the mapped type, under `except Exception: return None`.  The value is
\* the layout after the call and the item with its logical_id.
_register_item_in_model(model, item, ui_type) ==
    LET object_type == _map_ui_type_to_object_type(ui_type)
    IN  IF ui_type = "Exit" \/ _is_exit_marker(item)
        THEN [model |-> model, item |-> item, ret |-> None]
        ELSE IF object_type.outcome = "raise"
        THEN [model |-> model, item |-> item, ret |-> None]
        ELSE LET obj == LayoutObject(model.next_id, object_type.value,
                                     item.x, item.y, item.w, item.h,
                                     item.rotation, {<<"ui_type", ui_type>>})
             IN  [model |-> [model EXCEPT
                                !.objects = dict_set(model.objects, obj),
                                !.next_id = add_object_next_id(None,
                                                model.next_id)],
                  item |-> [item EXCEPT !.logical_id = Some(obj.id)],
                  ret |-> Some(obj)]

\* The object after the writes of _sync_single_item_to_model and of the
\* loop of sync_model_from_items: x, y, width, height and rotation are the
\* item's.  For a wall the half of getattr(item, "thickness", 0.0) is added
\* across its orientation, and a WallItem has no attribute thickness.
synced_object(obj, item) ==
    LET thickness == 0
        across == is_wall_item(item) /\ item.orientation # "horizontal"
        along == is_wall_item(item) /\ item.orientation = "horizontal"
    IN  [obj EXCEPT
            !.x = IF across THEN item.x + (thickness \div 2) ELSE item.x,
            !.y = IF along THEN item.y + (thickness \div 2) ELSE item.y,
            !.width = item.w, !.height = item.h, !.rotation = item.rotation]

\* _sync_single_item_to_model: nothing for an item without logical_id or
\* without its object in the model
_sync_single_item_to_model(model, item) ==
    IF item.logical_id = None THEN model
    ELSE LET found == get_object(model.objects, item.logical_id[1])
         IN  IF found = None THEN model
             ELSE [model EXCEPT
                      !.objects = dict_set(model.objects,
                                           synced_object(found[1], item))]

\* the loop of sync_model_from_items, from the k-th item of items() on
RECURSIVE sync_items_loop(_, _, _)
sync_items_loop(model, listed, k) ==
    IF k > Len(listed) THEN model
    ELSE IF _is_exit_marker(listed[k])
    THEN sync_items_loop(model, listed, k + 1)
    ELSE sync_items_loop(_sync_single_item_to_model(model, listed[k]),
                         listed, k + 1)

\* sync_model_from_items: every object takes its item's geometry, then the
\* exit points are the markers'
sync_model_from_items(model, its) ==
    [sync_items_loop(model, scene_items(its), 1) EXCEPT
        !.exit_points = _sync_exit_points_from_markers(its)]

\* get_scene_data: the dict of the model after sync_model_from_items
get_scene_data(model, its) == to_dict(sync_model_from_items(model, its))

\* obj.metadata.get("ui_type", obj.type.name.title())
scene_ui_type(obj) ==
    IF \E kv \in obj.metadata : kv[1] = "ui_type"
    THEN (CHOOSE kv \in obj.metadata : kv[1] = "ui_type")[2]
    ELSE name_title(obj.type)

\* The size of an image item's boundingRect(): its pixmap is the icon
\* scaled into 50 x 50, or the null pixmap when the icon is not found under
\* the working directory.
image_size(found) == IF found THEN <<50, 50>> ELSE <<0, 0>>

\* The item load_scene_data and rebuild_from_model make for an object.  A
\* wall takes the object's width and height as its rect and is put half of
\* getattr(item, "thickness", self.wall_thickness) before the object's
\* centerline; any other item is made at the object's x, y with the size
\* of its image.
item_for_object(obj, image) ==
    LET ui_type == scene_ui_type(obj)
        t == wall_thickness
    IN  IF ui_type = "Wall"
        THEN IF obj.width >= obj.height
             THEN Item("Wall", obj.x, obj.y - (t \div 2), obj.width,
                       obj.height, obj.rotation, "horizontal", Some(obj.id))
             ELSE Item("Wall", obj.x - (t \div 2), obj.y, obj.width,
                       obj.height, obj.rotation, "vertical", Some(obj.id))
        ELSE Item(ui_type, obj.x, obj.y, image[1], image[2], obj.rotation,
                  "", Some(obj.id))

\* _rebuild_exit_markers_from_model: a marker for each exit point, in the
\* model's order
exit_markers(model) ==
    [k \in DOMAIN model.exit_points |->
        _create_exit_marker(model.exit_points[k].x, model.exit_points[k].y)]

\* rebuild_from_model after clear_scene: the items of the model's objects,
\* then the exit markers
rebuild_from_model(model, image) ==
    [k \in DOMAIN model.objects |-> item_for_object(model.objects[k], image)]
        \o exit_markers(model)

\* load_scene_data: the scene's model is a NEW LayoutModel, from_dict(data),
\* and the items are rebuilt from it
load_scene_data(data, image) ==
    LET model == from_dict(data)
    IN  [model |-> model, items |-> rebuild_from_model(model, image)]

---------------------------------------------------------------------------
(* office_layout/graphics/scene.py: the history and the handlers *)

\* _push_undo_state with _history_suspended False: the snapshot is
\* get_scene_data(), which writes the items into the model first; the
\* oldest snapshot goes when the stack is over the limit; the redo stack
\* is emptied
_push_undo_state(model, its, undo_stack) ==
    LET snap == get_scene_data(model, its)
        pushed == Append(undo_stack, snap)
    IN  [model |-> sync_model_from_items(model, its),
         undo_stack |-> IF Len(pushed) > _history_limit THEN Tail(pushed)
                        ELSE pushed,
         redo_stack |-> << >>]

can_undo(undo_stack) == Len(undo_stack) > 1

can_redo(redo_stack) == Len(redo_stack) > 0

\* s.pop() leaves the list without its last element
pop(s) == SubSeq(s, 1, Len(s) - 1)

\* s[-1]
top_of(s) == s[Len(s)]

\* OfficeScene.undo
undo(model, its, undo_stack, redo_stack, image) ==
    LET current == get_scene_data(model, its)
        target == top_of(pop(undo_stack))
        loaded == load_scene_data(target, image)
    IN  [model |-> loaded.model, items |-> loaded.items,
         undo_stack |-> pop(undo_stack),
         redo_stack |-> Append(redo_stack, current)]

\* OfficeScene.redo; the snapshot it appends is get_scene_data() of the
\* scene it has just loaded, which writes the new items into the new model
redo(undo_stack, redo_stack, image) ==
    LET target == top_of(redo_stack)
        loaded == load_scene_data(target, image)
    IN  [model |-> sync_model_from_items(loaded.model, loaded.items),
         items |-> loaded.items,
         undo_stack |-> Append(undo_stack,
                               get_scene_data(loaded.model, loaded.items)),
         redo_stack |-> pop(redo_stack)]

\* the state of a layout that a snapshot keeps and the editor shows: the
\* room, the objects and the exit points, whatever their order
Shown(model) ==
    [to_dict(model) EXCEPT !.exit_points = elements(model.exit_points)]

\* the scene's layout_model has the fields of model
SceneModel(model) ==
    /\ room_width' = model.room_width
    /\ room_height' = model.room_height
    /\ grid_size' = model.grid_size
    /\ objects' = model.objects
    /\ next_id' = model.next_id
    /\ exit_points' = model.exit_points

\* MainWindow.layout_model
WindowModel == IF window_model.shared THEN Layout ELSE window_model.model

\* the scene takes a new LayoutModel: the window keeps the object it has,
\* which is the scene's old one (as the scene last wrote it) if they
\* shared it
Detached(old) ==
    window_model' = IF window_model.shared
                    THEN [shared |-> FALSE, model |-> old]
                    ELSE window_model

\* the record of the edits: one more, made on the layout as it is
Edited ==
    edits' = [past |-> Append(edits.past, Shown(Layout)), future |-> << >>,
              made |-> edits.made + 1]

\* itemAt(pos): the places in items of the items whose rectangle holds pos
\* (an exit marker's is the icon's around its centre)
itemAt(its, pos) ==
    {k \in DOMAIN its :
        IF _is_exit_marker(its[k])
        THEN /\ Abs(pos[1] - its[k].x) <= size \div 2
             /\ Abs(pos[2] - its[k].y) <= size \div 2
        ELSE /\ its[k].x <= pos[1] /\ pos[1] <= its[k].x + its[k].w
             /\ its[k].y <= pos[2] /\ pos[2] <= its[k].y + its[k].h}

\* the scene holds at most this many items
MaxItems == 3

\* no wall is being drawn: the mouse button is up
ButtonUp == ~ is_drawing_wall

\* what the handlers of the editor never touch
EditorFrame == UNCHANGED <<search, files, min_clearance, icons>>

\* mousePressEvent, left button, tool Exit, on empty canvas: add_item_at
\* snapshots, adds a marker centred on pos and reads the exit points back
PressExit(pos) ==
    LET pushed == _push_undo_state(Layout, items, _undo_stack)
        its == Append(items, _create_exit_marker(pos[1], pos[2]))
    IN  /\ ButtonUp
        /\ Len(items) < MaxItems
        /\ itemAt(items, pos) = {}
        /\ items' = its
        /\ SceneModel([pushed.model EXCEPT
                          !.exit_points = _sync_exit_points_from_markers(its)])
        /\ _undo_stack' = pushed.undo_stack
        /\ _redo_stack' = pushed.redo_stack
        /\ Edited
        /\ UNCHANGED before
        /\ last' = [op |-> "press", tool |-> "Exit", pos |-> pos]
        /\ UNCHANGED <<is_drawing_wall, wall_start_pos, current_wall_item,
                       window_model>>
        /\ EditorFrame

\* mousePressEvent, left button, a furniture tool, on empty canvas: the
\* snapshot, then add_item_at makes the item with its corner half a size
\* before pos and registers it
PressPlace(ui_type, pos) ==
    LET pushed == _push_undo_state(Layout, items, _undo_stack)
        item == Item(ui_type, pos[1] - (size \div 2), pos[2] - (size \div 2),
                     image_size(icons)[1], image_size(icons)[2], 0, "", None)
        registered == _register_item_in_model(pushed.model, item, ui_type)
    IN  /\ ButtonUp
        /\ Len(items) < MaxItems
        /\ itemAt(items, pos) = {}
        /\ items' = Append(items, registered.item)
        /\ SceneModel(registered.model)
        /\ _undo_stack' = pushed.undo_stack
        /\ _redo_stack' = pushed.redo_stack
        /\ Edited
        /\ UNCHANGED before
        /\ last' = [op |-> "press", tool |-> ui_type, pos |-> pos,
                    registered |-> registered.ret]
        /\ UNCHANGED <<is_drawing_wall, wall_start_pos, current_wall_item,
                       window_model>>
        /\ EditorFrame

\* the list without its k-th element
without(s, k) == SubSeq(s, 1, k - 1) \o SubSeq(s, k + 1, Len(s))

\* mousePressEvent, right button, on the k-th item: the snapshot; a marker
\* goes and the exit points are read back; another item goes with its
\* object, if it has one
PressDelete(k) ==
    LET pushed == _push_undo_state(Layout, items, _undo_stack)
        its == without(items, k)
        item == items[k]
        model == IF _is_exit_marker(item)
                 THEN [pushed.model EXCEPT
                          !.exit_points = _sync_exit_points_from_markers(its)]
                 ELSE IF item.logical_id # None
                 THEN [pushed.model EXCEPT
                          !.objects = dict_pop(pushed.model.objects,
                                               item.logical_id[1])]
                 ELSE pushed.model
    IN  /\ ButtonUp
        /\ k \in DOMAIN items
        /\ items' = its
        /\ SceneModel(model)
        /\ _undo_stack' = pushed.undo_stack
        /\ _redo_stack' = pushed.redo_stack
        /\ Edited
        /\ UNCHANGED before
        /\ last' = [op |-> "delete", item |-> item]
        /\ UNCHANGED <<is_drawing_wall, wall_start_pos, current_wall_item,
                       window_model>>
        /\ EditorFrame

\* mousePressEvent, left button, tool Wall, on empty canvas: the snapshot,
\* then a wall of the least length is made at pos, added to the scene and
\* registered in the model
PressWall(pos) ==
    LET pushed == _push_undo_state(Layout, items, _undo_stack)
        wall == Item("Wall", pos[1], pos[2], min_length, wall_thickness, 0,
                     "horizontal", None)
        registered == _register_item_in_model(pushed.model, wall, "Wall")
    IN  /\ ButtonUp
        /\ Len(items) < MaxItems
        /\ itemAt(items, pos) = {}
        /\ is_drawing_wall' = TRUE
        /\ wall_start_pos' = Some(pos)
        /\ items' = Append(items, registered.item)
        /\ current_wall_item' = Some(Len(items) + 1)
        /\ SceneModel(registered.model)
        /\ _undo_stack' = pushed.undo_stack
        /\ _redo_stack' = pushed.redo_stack
        /\ Edited
        /\ UNCHANGED before
        /\ last' = [op |-> "press", tool |-> "Wall", pos |-> pos,
                    registered |-> registered.ret]
        /\ UNCHANGED window_model
        /\ EditorFrame

\* the wall under the mouse at pos, drawn from start: along the greater of
\* the two distances, at least min_length long, the start on its centerline
grown_wall(wall, start, pos) ==
    LET thickness == wall_thickness
        dx == pos[1] - start[1]
        dy == pos[2] - start[2]
        horizontal == Abs(dx) >= Abs(dy)
        length == IF horizontal THEN Max(Abs(dx), min_length)
                  ELSE Max(Abs(dy), min_length)
    IN  IF horizontal
        THEN [wall EXCEPT !.orientation = "horizontal",
                          !.w = length, !.h = thickness,
                          !.x = IF dx >= 0 THEN start[1]
                                ELSE start[1] - length,
                          !.y = start[2] - (thickness \div 2)]
        ELSE [wall EXCEPT !.orientation = "vertical",
                          !.w = thickness, !.h = length,
                          !.x = start[1] - (thickness \div 2),
                          !.y = IF dy >= 0 THEN start[2]
                                ELSE start[2] - length]

\* mouseMoveEvent while a wall is drawn: only the item changes
MoveWall(pos) ==
    /\ is_drawing_wall
    /\ current_wall_item # None
    /\ items' = [items EXCEPT
                    ![current_wall_item[1]] =
                        grown_wall(@, wall_start_pos[1], pos)]
    /\ UNCHANGED before
    /\ last' = [op |-> "move", pos |-> pos]
    /\ UNCHANGED <<_undo_stack, _redo_stack, is_drawing_wall, wall_start_pos,
                   current_wall_item, window_model, edits, room_width,
                   room_height, grid_size, objects, next_id, exit_points>>
    /\ EditorFrame

\* _snap_wall_endpoints starts with wall.get_snap_points_scene(), and a
\* WallItem has no such method (nor the distance the loop calls): the call
\* raises AttributeError for every wall
_snap_wall_endpoints(wall) == Raise("AttributeError")

\* mouseReleaseEvent while a wall is drawn: the gesture ends, the wall is
\* snapped to the walls nearby and then written to the model.  The handler
\* does not catch what _snap_wall_endpoints raises.
ReleaseWall ==
    LET wall == items[current_wall_item[1]]
        snapped == _snap_wall_endpoints(wall)
    IN  /\ is_drawing_wall
        /\ is_drawing_wall' = FALSE
        /\ current_wall_item' = None
        /\ wall_start_pos' = None
        /\ IF current_wall_item = None
           THEN /\ UNCHANGED <<items, room_width, room_height, grid_size,
                               objects, next_id, exit_points>>
                /\ last' = [op |-> "release", ret |-> Return(None)]
           ELSE IF snapped.outcome = "raise"
           THEN /\ UNCHANGED <<items, room_width, room_height, grid_size,
                               objects, next_id, exit_points>>
                /\ last' = [op |-> "release", wall |-> wall, ret |-> snapped]
           ELSE /\ items' = [items EXCEPT
                                ![current_wall_item[1]] = snapped.value]
                /\ SceneModel(_sync_single_item_to_model(Layout,
                                                         snapped.value))
                /\ last' = [op |-> "release", wall |-> snapped.value,
                            ret |-> Return(None)]
        /\ before' = Snapshot
        /\ UNCHANGED <<_undo_stack, _redo_stack, window_model, edits>>
        /\ EditorFrame

\* move_object(self.layout_model, logical_id, x, y) for an object the model
\* holds: the result and the model after it
move_object(model, obj_id, new_x, new_y) ==
    LET obj == get_object(model.objects, obj_id)[1]
        res == _can_place_internal(model.objects,
                   Rect(0, 0, model.room_width, model.room_height),
                   min_clearance, move_candidate_rect(obj, new_x, new_y),
                   Some(obj.id))
    IN  [model |-> [model EXCEPT
                       !.objects = move_write(model.objects, obj, new_x,
                                              new_y, res.ok)],
         ok |-> res.ok]

\* where mouseReleaseEvent puts the item of a rejected move: at the model
\* object's x, y, a wall half its thickness before them
reverted_item(item, model_obj) ==
    LET t == wall_thickness
    IN  IF is_wall_item(item)
        THEN IF item.orientation = "horizontal"
             THEN [item EXCEPT !.x = model_obj.x,
                               !.y = model_obj.y - (t \div 2)]
             ELSE [item EXCEPT !.x = model_obj.x - (t \div 2),
                               !.y = model_obj.y]
        ELSE [item EXCEPT !.x = model_obj.x, !.y = model_obj.y]

\* mouseReleaseEvent after the k-th item, the selected one, was dragged to
\* pos.  A marker: the snapshot, and the exit points are read back.  An
\* item with its object in the model: the snapshot if it moved, then
\* _sync_single_item_to_model, then move_object, and the item is put back
\* when the move is refused.
ReleaseDrag(k, pos) ==
    LET dragged == [items[k] EXCEPT !.x = pos[1], !.y = pos[2]]
        its == [items EXCEPT ![k] = dragged]
        pushed == _push_undo_state(Layout, its, _undo_stack)
        logical_id == dragged.logical_id
        model_obj == get_object(objects, logical_id[1])
        changed == \/ pos[1] # model_obj[1].x
                   \/ pos[2] # model_obj[1].y
                   \/ dragged.rotation # model_obj[1].rotation
        kept == IF changed THEN pushed.model ELSE Layout
        synced == _sync_single_item_to_model(kept, dragged)
        moved == move_object(synced, logical_id[1], pos[1], pos[2])
        now_obj == get_object(moved.model.objects, logical_id[1])[1]
    IN  /\ ButtonUp
        /\ k \in DOMAIN items
        /\ before' = Snapshot
        /\ UNCHANGED <<is_drawing_wall, wall_start_pos, current_wall_item,
                       window_model>>
        /\ EditorFrame
        /\ IF _is_exit_marker(dragged)
           THEN /\ items' = its
                /\ SceneModel(pushed.model)
                /\ _undo_stack' = pushed.undo_stack
                /\ _redo_stack' = pushed.redo_stack
                /\ Edited
                /\ last' = [op |-> "drag", k |-> k, item |-> items[k], pos |-> pos,
                            moved |-> None]
           ELSE IF logical_id = None \/ model_obj = None
           THEN /\ items' = its
                /\ last' = [op |-> "drag", k |-> k, item |-> items[k], pos |-> pos,
                            moved |-> None]
                /\ UNCHANGED <<_undo_stack, _redo_stack, edits, room_width,
                               room_height, grid_size, objects, next_id,
                               exit_points>>
           ELSE /\ items' = IF moved.ok THEN its
                            ELSE [its EXCEPT
                                     ![k] = reverted_item(dragged, now_obj)]
                /\ SceneModel(moved.model)
                /\ IF changed
                   THEN /\ _undo_stack' = pushed.undo_stack
                        /\ _redo_stack' = pushed.redo_stack
                        /\ Edited
                   ELSE UNCHANGED <<_undo_stack, _redo_stack, edits>>
                /\ last' = [op |-> "drag", k |-> k, item |-> items[k], pos |-> pos,
                            moved |-> Some(moved.ok)]

---------------------------------------------------------------------------
(* office_layout/ui/main_window.py *)

\* MainWindow.undo: scene.undo(), which does nothing when can_undo() is
\* False.  The scene's model is then a new object; the window keeps the
\* old one, as get_scene_data() last wrote it.
Undo ==
    LET done == undo(Layout, items, _undo_stack, _redo_stack, image_size(icons))
    IN  /\ ButtonUp
        /\ UNCHANGED before
        /\ UNCHANGED <<is_drawing_wall, wall_start_pos, current_wall_item>>
        /\ EditorFrame
        /\ IF ~ can_undo(_undo_stack)
           THEN /\ last' = [op |-> "undo", acted |-> FALSE]
                /\ UNCHANGED <<items, _undo_stack, _redo_stack, window_model,
                               edits, room_width, room_height, grid_size,
                               objects, next_id, exit_points>>
           ELSE /\ items' = done.items
                /\ SceneModel(done.model)
                /\ _undo_stack' = done.undo_stack
                /\ _redo_stack' = done.redo_stack
                /\ Detached(sync_model_from_items(Layout, items))
                /\ edits' = IF edits.past = << >> THEN edits
                            ELSE [edits EXCEPT
                                     !.past = pop(edits.past),
                                     !.future = Append(edits.future,
                                                       Shown(Layout))]
                /\ last' = [op |-> "undo", acted |-> TRUE,
                            undone |-> Len(edits.future) + 1,
                            expected |-> IF edits.past = << >> THEN None
                                         ELSE Some(top_of(edits.past))]

\* MainWindow.redo: scene.redo()
Redo ==
    LET done == redo(_undo_stack, _redo_stack, image_size(icons))
    IN  /\ ButtonUp
        /\ UNCHANGED before
        /\ UNCHANGED <<is_drawing_wall, wall_start_pos, current_wall_item>>
        /\ EditorFrame
        /\ IF ~ can_redo(_redo_stack)
           THEN /\ last' = [op |-> "redo", acted |-> FALSE]
                /\ UNCHANGED <<items, _undo_stack, _redo_stack, window_model,
                               edits, room_width, room_height, grid_size,
                               objects, next_id, exit_points>>
           ELSE /\ items' = done.items
                /\ SceneModel(done.model)
                /\ _undo_stack' = done.undo_stack
                /\ _redo_stack' = done.redo_stack
                /\ Detached(Layout)
                /\ edits' = IF edits.future = << >> THEN edits
                            ELSE [edits EXCEPT
                                     !.past = Append(edits.past,
                                                     Shown(Layout)),
                                     !.future = pop(edits.future)]
                /\ last' = [op |-> "redo", acted |-> TRUE,
                            expected |-> IF edits.future = << >> THEN None
                                         ELSE Some(top_of(edits.future))]

\* MainWindow.load_plan with a file chosen: load_layout gives
\* from_dict(data), and _apply_loaded_model makes it the window's model and,
\* by set_model, the scene's, which rebuilds its items.  The stacks of the
\* scene stay as they are.
LoadPlan(data) ==
    LET model == from_dict(data)
    IN  /\ ButtonUp
        /\ window_model' = [shared |-> TRUE]
        /\ SceneModel(model)
        /\ items' = rebuild_from_model(model, image_size(icons))
        /\ UNCHANGED before
        /\ last' = [op |-> "load_plan", data |-> data]
        /\ UNCHANGED <<_undo_stack, _redo_stack, is_drawing_wall,
                       wall_start_pos, current_wall_item, edits>>
        /\ EditorFrame

\* MainWindow.validate_layout: the scene writes its items into ITS model,
\* then run_validation is given the WINDOW's model
WindowValidate ==
    LET shown == sync_model_from_items(Layout, items)
        given == IF window_model.shared THEN shown ELSE window_model.model
    IN  /\ ButtonUp
        /\ SceneModel(shown)
        /\ UNCHANGED before
        /\ last' = [op |-> "validate", given |-> given,
                    errors |-> validate_layout(given)]
        /\ UNCHANGED <<editor, search, files, min_clearance>>

\* MainWindow.save_plan with a path chosen: the scene writes its items
\* into its model, then save_layout is given the window's model
WindowSave(path) ==
    LET shown == sync_model_from_items(Layout, items)
        given == IF window_model.shared THEN shown ELSE window_model.model
        done == save_layout(files, path, LAYOUT_MODEL, given, NO_FAULT, TRUE)
    IN  /\ ButtonUp
        /\ SceneModel(shown)
        /\ files' = done.files
        /\ UNCHANGED before
        /\ last' = [op |-> "save", path |-> path, given |-> given,
                    ret |-> done.ret]
        /\ UNCHANGED <<editor, search, min_clearance>>

---------------------------------------------------------------------------
(* The editor at work *)

\* MainWindow.__init__: a LayoutModel of 900 x 600 with cells of 40, shared
\* with the OfficeScene made for it, whose __init__ pushes the first
\* snapshot
InitEditor ==
    /\ InitLayoutOf(900, 600, 40)
    /\ search = NoSearch
    /\ items = << >>
    /\ _undo_stack = <<to_dict([room_width |-> 900, room_height |-> 600,
                                grid_size |-> 40, objects |-> << >>,
                                next_id |-> 1, exit_points |-> << >>])>>
    /\ _redo_stack = << >>
    /\ is_drawing_wall = FALSE
    /\ wall_start_pos = None
    /\ current_wall_item = None
    /\ window_model = [shared |-> TRUE]
    /\ icons \in BOOLEAN
    /\ edits = [past |-> << >>, future |-> << >>, made |-> 0]
    /\ last = [op |-> "init"]

\* where the user clicks with the Exit tool, with a furniture tool and with
\* the Wall tool, where the mouse goes while a wall is drawn, and where
\* items are dragged to: a free place, a place on the plan's wall, and a
\* place outside the room
ExitSpots == {<<100, 500>>, <<800, 500>>}

PlaceSpots == {<<500, 500>>}

WallSpots == {<<300, 450>>, <<600, 200>>}

WallMoves == {<<420, 460>>, <<310, 550>>, <<250, 440>>, <<610, 100>>}

DragSpots == {<<600, 100>>, <<320, 290>>, <<-30, 100>>}

\* the plan the user opens: a desk, a horizontal wall with its centerline
\* at y = 305, and an exit
Plans ==
    {[room |-> [width |-> 900, height |-> 600, grid_size |-> 40],
      objects |-> <<[id |-> 1, type |-> DESK, x |-> 100, y |-> 100,
                     width |-> 50, height |-> 50, rotation |-> 0,
                     metadata |-> {<<"ui_type", "Desk">>}],
                    [id |-> 2, type |-> WALL, x |-> 300, y |-> 305,
                     width |-> 200, height |-> 10, rotation |-> 0,
                     metadata |-> {<<"ui_type", "Wall">>}]>>,
      exit_points |-> <<[x |-> 850, y |-> 300]>>]}

\* the plan the user opens in the window at work: a desk and an exit
WindowPlans ==
    {[room |-> [width |-> 900, height |-> 600, grid_size |-> 40],
      objects |-> <<[id |-> 1, type |-> DESK, x |-> 100, y |-> 100,
                     width |-> 50, height |-> 50, rotation |-> 0,
                     metadata |-> {<<"ui_type", "Desk">>}]>>,
      exit_points |-> <<[x |-> 850, y |-> 300]>>]}

\* the user makes at most this many edits
MaxEdits == 3

MayEdit == edits.made < MaxEdits

EditorPressExit == \E pos \in ExitSpots : MayEdit /\ PressExit(pos)

EditorPressPlace ==
    \E pos \in PlaceSpots : MayEdit /\ PressPlace("Desk", pos)

EditorPressDelete == \E k \in 1 .. MaxItems : MayEdit /\ PressDelete(k)

EditorPressWall == \E pos \in WallSpots : MayEdit /\ PressWall(pos)

EditorMoveWall == \E pos \in WallMoves : MoveWall(pos)

EditorReleaseDrag ==
    \E k \in 1 .. MaxItems, pos \in DragSpots : MayEdit /\ ReleaseDrag(k, pos)

EditorLoadPlan == \E data \in Plans : LoadPlan(data)

WindowLoadPlan == \E data \in WindowPlans : LoadPlan(data)

\* in the window at work the user makes at most this many edits
MaxWindowEdits == 1

WindowPressExit ==
    \E pos \in ExitSpots : edits.made < MaxWindowEdits /\ PressExit(pos)

EditorSave == WindowSave(<<"layout", ".json">>)

\* dragging the items of an opened plan
NextDrag == EditorLoadPlan \/ EditorReleaseDrag

SpecDrag == InitEditor /\ [][NextDrag]_vars

\* drawing walls, in an empty room or in an opened plan
NextWall ==
    \/ WindowLoadPlan
    \/ EditorPressWall
    \/ EditorMoveWall
    \/ ReleaseWall

SpecWall == InitEditor /\ [][NextWall]_vars

\* placing and deleting exits and furniture, undoing and redoing
NextUndo ==
    \/ EditorPressExit
    \/ EditorPressPlace
    \/ EditorPressDelete
    \/ Undo
    \/ Redo

SpecUndo == InitEditor /\ [][NextUndo]_vars

\* the window at work: plans are opened, exits placed, edits undone and
\* redone, the layout validated and saved
NextWindow ==
    \/ WindowLoadPlan
    \/ WindowPressExit
    \/ Undo
    \/ Redo
    \/ WindowValidate
    \/ EditorSave

SpecWindow == InitEditor /\ [][NextWindow]_vars

---------------------------------------------------------------------------
(* C27: the move request of the editor *)

\* mouseReleaseEvent has just handed a dragged item's position to
\* move_object
MoveRequested == last.op = "drag" /\ last.moved # None

MovedId == last.item.logical_id[1]

\* the x, y, width, height and rotation of the model's object of that id
Geometry(objs, id) ==
    LET obj == get_object(objs, id)[1]
    IN  <<obj.x, obj.y, obj.width, obj.height, obj.rotation>>

\* the model's objects but the dragged one are as before the drag
OthersAsBefore ==
    /\ Len(objects) = Len(before.objects)
    /\ \A i \in DOMAIN objects :
          objects[i].id # MovedId => objects[i] = before.objects[i]

\* C27: in the editor's move request (mouse release after dragging an
\* item) the model is only written after the check: if move_object rejects
\* the new position, the model object's x, y, width, height and rotation
\* equal their values before the drag and the graphics item is put back at
\* its position before the drag; if it accepts, exactly that one model
\* object changes.
C27_ModelWrittenAfterCheck ==
    MoveRequested =>
        /\ last.moved = Some(FALSE) =>
              /\ Geometry(objects, MovedId) = Geometry(before.objects, MovedId)
              /\ items[last.k].x = last.item.x
              /\ items[last.k].y = last.item.y
        /\ last.moved = Some(TRUE) => OthersAsBefore

---------------------------------------------------------------------------
(* C28: the wall-drawing gesture *)

\* the item of the wall being drawn
DrawnWall == items[current_wall_item[1]]

\* the model holds an object for the item
HasObject(item) ==
    /\ item.logical_id # None
    /\ get_object(objects, item.logical_id[1]) # None

\* the mouse was released on a wall being drawn
Committed == last.op = "release"

\* the object stores the wall item by the centerline convention
OnCenterline(obj, wall) ==
    /\ obj.type = WALL
    /\ obj.width = wall.w
    /\ obj.height = wall.h
    /\ IF wall.orientation = "horizontal"
       THEN obj.x = wall.x /\ obj.y = wall.y + (wall_thickness \div 2)
       ELSE obj.x = wall.x + (wall_thickness \div 2) /\ obj.y = wall.y

\* C28: during a wall-drawing gesture the layout model holds no object for
\* the wall while the gesture is in Start or Growing (between mouse press
\* and mouse release); at Commit (mouse release) the model gains exactly
\* one WALL object whose stored x, y, width, height follow the centerline
\* convention (horizontal: y is the centerline Y; vertical: x is the
\* centerline X).
C28_WallEntersModelAtCommit ==
    /\ is_drawing_wall => ~ HasObject(DrawnWall)
    /\ Committed =>
          /\ Len(objects) = Len(before.objects) + 1
          /\ SubSeq(objects, 1, Len(before.objects)) = before.objects
          /\ OnCenterline(objects[Len(objects)], last.wall)

---------------------------------------------------------------------------
(* C29: undo and redo by snapshots *)

\* undo() has just restored a snapshot, after at least as many edits
Undone == last.op = "undo" /\ last.acted /\ last.expected # None

\* redo() has just restored a snapshot of an undone edit
Redone == last.op = "redo" /\ last.acted /\ last.expected # None

\* an edit has just been made: a handler that calls _push_undo_state
EditMade == last.op \in {"press", "delete"}

\* C29: snapshot undo restores the state before the last change: after any
\* sequence of n >= 1 edits, each preceded by _push_undo_state, one undo()
\* makes the layout equal to its state immediately before the most recent
\* edit, k <= n successive undo() calls make it equal to the state before
\* the k-th most recent edit, and a following redo() restores the state
\* that was current when the corresponding undo() was called; the undo
\* stack always holds between 1 and _history_limit snapshots, and any new
\* edit empties the redo stack.
C29_UndoRestoresStateBeforeEdit ==
    /\ Undone => Shown(Layout) = last.expected[1]
    /\ Redone => Shown(Layout) = last.expected[1]
    /\ 1 <= Len(_undo_stack)
    /\ Len(_undo_stack) <= _history_limit
    /\ EditMade => _redo_stack = << >>

---------------------------------------------------------------------------
(* C30: one layout model *)

\* MainWindow has just handed its model to validate_layout or save_layout
HandedOver == last.op \in {"validate", "save"}

\* C30: there is a single authoritative layout model at all times: after
\* any sequence of edits, undo(), redo() and load operations, the
\* LayoutModel that MainWindow passes to validation and to save_layout is
\* the same model the scene displays and edits (scene.layout_model), so
\* Validate and Save always act on the state shown in the editor.
C30_SingleLayoutModel ==
    /\ window_model.shared
    /\ HandedOver => last.given = Layout

====
